---- MODULE Spec2Model ----
(***************************************************************************)
(* State-machine model of the CivicTheme SDC update tool: the .env         *)
(* configuration store, the sub-theme validator, the session logger with   *)
(* its log rotation, the update runner (runUpdate / runScript) and the     *)
(* interactive main loop of the CLI.                                       *)
(*                                                                         *)
(* Text is modelled as a sequence of tokens (a token is a TLA+ string), so *)
(* that trimming, concatenation and "contains" are computed, not assumed.  *)
(* An optional value is a sequence of length 0 (absent) or 1 (present).    *)
(***************************************************************************)
EXTENDS Integers, Sequences, FiniteSets, TLC

(***************************************************************************)
(* Bounds of the model.                                                    *)
(***************************************************************************)
\* menu choices one CLI session may take
MaxActions == 2
\* changes made from outside the process (edits of .env, of the sub-theme)
MaxExternal == 1
\* seconds the session clock may advance
MaxClock == 1
\* session log files left in .logs by earlier sessions
MaxPre == 15
\* saveConfig / loadConfig calls in the configuration-store specification
MaxCfgOps == 3
\* direct calls of the logger or of the validator in their specifications
MaxUnitOps == 3
\* component files the schema generation script finds
MaxFiles == 3

(***************************************************************************)
(* Generic helpers.                                                        *)
(***************************************************************************)
None == <<>>

Some(v) == <<v>>

IsSome(o) == Len(o) = 1

Get(o) == o[1]

Range(s) == {s[i] : i \in DOMAIN s}

Contains(msg, tok) == \E i \in DOMAIN msg : msg[i] = tok

IsPrefix(s, t) == Len(s) <= Len(t) /\ SubSeq(t, 1, Len(s)) = s

(***************************************************************************)
(* Configuration store (config.js).                                        *)
(***************************************************************************)
ENV_FILE_PATH == ".env"

EnvKeys == {"SUBTHEME_DIRECTORY", "ANTHROPIC_API_KEY", "ANTHROPIC_MODEL"}

\* The variables of process.env the model follows.
ProcessKeys == EnvKeys \cup {"CIVICTHEME_UIKIT_PATH", "PATH"}

DEFAULT_MODEL == <<"claude-3-5-sonnet-20241022">>

\* JavaScript `value || fallback` on strings: the empty string is falsy.
OrElse(text, fallback) == IF text = <<>> THEN fallback ELSE text

\* process.env.KEY || fallback: an unset variable reads as undefined.
EnvOr(penv, key, fallback) ==
    IF IsSome(penv[key]) THEN OrElse(Get(penv[key]), fallback) ELSE fallback

RECURSIVE TrimLeft(_)
TrimLeft(text) ==
    IF text # <<>> /\ Head(text) = " " THEN TrimLeft(Tail(text)) ELSE text

RECURSIVE TrimRight(_)
TrimRight(text) ==
    IF text # <<>> /\ text[Len(text)] = " "
    THEN TrimRight(SubSeq(text, 1, Len(text) - 1))
    ELSE text

\* dotenv.parse of one KEY=value line: the value is trimmed of surrounding
\* white space.
dotenvParseValue(raw) == TrimRight(TrimLeft(raw))

\* dotenv.config({ path }): every key of the parsed file is copied into
\* process.env unless process.env already has that key (no override).
dotenvConfig(file, penv) ==
    [k \in DOMAIN penv |->
        IF k \in EnvKeys /\ ~IsSome(penv[k])
        THEN Some(dotenvParseValue(file[k]))
        ELSE penv[k]]

\* loadConfig(): result and the process environment it leaves behind.
loadConfig(file, penv) ==
    IF IsSome(file)
    THEN LET env2 == dotenvConfig(Get(file), penv)
         IN [config |-> [subthemeDirectory |-> EnvOr(env2, "SUBTHEME_DIRECTORY", <<>>),
                         anthropicApiKey   |-> EnvOr(env2, "ANTHROPIC_API_KEY", <<>>),
                         anthropicModel    |-> EnvOr(env2, "ANTHROPIC_MODEL", DEFAULT_MODEL),
                         configExists      |-> TRUE],
             env |-> env2]
    ELSE [config |-> [subthemeDirectory |-> <<>>,
                      anthropicApiKey   |-> <<>>,
                      anthropicModel    |-> DEFAULT_MODEL,
                      configExists      |-> FALSE],
          env |-> penv]

\* saveConfig(config): the text written to .env, one KEY=value line per key.
saveConfig(config) ==
    Some([SUBTHEME_DIRECTORY |-> OrElse(config.subthemeDirectory, <<>>),
          ANTHROPIC_API_KEY  |-> OrElse(config.anthropicApiKey, <<>>),
          ANTHROPIC_MODEL    |-> OrElse(config.anthropicModel, DEFAULT_MODEL)])

MsgNoFile == <<"Configuration file not found.", "Please configure the application first.">>

MsgNoDir == <<"Subtheme directory not configured.", "Please configure the application first.">>

MsgNoKey == <<"Anthropic API key not configured.", "Please configure the application first.">>

MsgNoAccess == <<"Cannot access subtheme directory:">>

MsgValid == <<"Configuration is valid">>

\* fs.access that never rejects.
Accessible_always(fs, dir) == TRUE

\* fs.access(path) on the sub-theme directory.
Accessible(fs, dir) == dir \in DOMAIN fs /\ fs[dir].exists

\* validateConfig without the check of the API key.
validateConfig_noKeyCheck(file, penv, fs) ==
    LET loaded == loadConfig(file, penv)
        config == loaded.config
        result ==
            IF ~config.configExists THEN [valid |-> FALSE, message |-> MsgNoFile]
            ELSE IF config.subthemeDirectory = <<>> THEN [valid |-> FALSE, message |-> MsgNoDir]
            ELSE IF ~Accessible(fs, config.subthemeDirectory)
                 THEN [valid |-> FALSE, message |-> MsgNoAccess \o config.subthemeDirectory]
            ELSE [valid |-> TRUE, message |-> MsgValid]
    IN [valid |-> result.valid, message |-> result.message, env |-> loaded.env]

\* validateConfig(): {valid, message} and the process environment left by
\* the loadConfig() it calls.
validateConfig(file, penv, fs) ==
    LET loaded == loadConfig(file, penv)
        config == loaded.config
        result ==
            IF ~config.configExists THEN [valid |-> FALSE, message |-> MsgNoFile]
            ELSE IF config.subthemeDirectory = <<>> THEN [valid |-> FALSE, message |-> MsgNoDir]
            ELSE IF config.anthropicApiKey = <<>> THEN [valid |-> FALSE, message |-> MsgNoKey]
            ELSE IF ~Accessible(fs, config.subthemeDirectory)
                 THEN [valid |-> FALSE, message |-> MsgNoAccess \o config.subthemeDirectory]
            ELSE [valid |-> TRUE, message |-> MsgValid]
    IN [valid |-> result.valid, message |-> result.message, env |-> loaded.env]

(***************************************************************************)
(* Sub-theme validator (validator.js).  A directory is described by what   *)
(* the validator reads of it.                                              *)
(***************************************************************************)
DirState(exists, infoYml, ymlReadable, ymlName, ymlType, ymlBase, components) ==
    [exists |-> exists, infoYml |-> infoYml, ymlReadable |-> ymlReadable,
     ymlName |-> ymlName, ymlType |-> ymlType, ymlBase |-> ymlBase,
     components |-> components]

MissingDir == DirState(FALSE, FALSE, FALSE, FALSE, FALSE, FALSE, "missing")

EligibleDir == DirState(TRUE, TRUE, TRUE, TRUE, TRUE, TRUE, "dir")

PlainDir == DirState(TRUE, FALSE, FALSE, FALSE, FALSE, FALSE, "missing")

WrongBaseDir == DirState(TRUE, TRUE, TRUE, TRUE, TRUE, FALSE, "dir")

NoComponentsDir == DirState(TRUE, TRUE, TRUE, TRUE, TRUE, TRUE, "missing")

ComponentsFileDir == DirState(TRUE, TRUE, TRUE, TRUE, FALSE, TRUE, "file")

\* The descriptor of a sub-theme is there but cannot be read (no read
\* permission).
UnreadableYmlDir == DirState(TRUE, TRUE, FALSE, TRUE, TRUE, TRUE, "dir")

\* A components directory and no descriptor.
ComponentsOnlyDir == DirState(TRUE, FALSE, FALSE, FALSE, FALSE, FALSE, "dir")

\* A descriptor without a name, and no components directory.
NamelessDir == DirState(TRUE, TRUE, TRUE, FALSE, TRUE, TRUE, "missing")

DirStates == {MissingDir, EligibleDir, PlainDir, WrongBaseDir, NoComponentsDir,
              ComponentsFileDir, UnreadableYmlDir, ComponentsOnlyDir, NamelessDir}

NoDetails == [hasInfoYml |-> FALSE, hasComponentsDir |-> FALSE, hasName |-> FALSE,
              isThemeType |-> FALSE, hasCivicThemeBase |-> FALSE]

\* details: {} of the outer catch.
EmptyDetails == [k \in {} |-> FALSE]

MsgNoInfoYml == <<"Could not find", "<basename>.info.yml", "file in the directory.">>

MsgUnreadable == <<"Failed to read or parse", "<basename>.info.yml", "file:">>

MsgValidationError == <<"Error validating directory:">>

MsgNotSubTheme == <<"The directory does not appear to be a valid CivicTheme sub-theme:">>

MsgSubThemeOk == <<"[ok]", "Valid CivicTheme sub-theme directory with components folder">>

\* One line of the combined message; "[x]" and "[ok]" stand for the cross
\* mark and the check mark the line starts with.
Mark(failed, bad, good) == IF failed THEN <<"[x]">> \o bad ELSE <<"[ok]">> \o good

\* The report of lines 47-53 with the components directory looked at all
\* the same.
withoutInfoYml_goesOn(d) ==
    [valid |-> FALSE, message |-> MsgNoInfoYml,
     details |-> [NoDetails EXCEPT !.hasComponentsDir = d.components = "dir"]]

\* The catch of fs.access on the descriptor: the report as it was prepared.
withoutInfoYml(d) ==
    [valid |-> FALSE, message |-> MsgNoInfoYml, details |-> NoDetails]

\* isValid with the components directory left out.
isValid_withoutComponents(details) ==
    /\ details.hasInfoYml
    /\ details.hasName
    /\ details.isThemeType
    /\ details.hasCivicThemeBase

isValid(details) ==
    /\ details.hasInfoYml
    /\ details.hasName
    /\ details.isThemeType
    /\ details.hasCivicThemeBase
    /\ details.hasComponentsDir

validateSubThemeDirectory(d) ==
    IF ~d.infoYml
    THEN withoutInfoYml(d)
    ELSE LET found == [NoDetails EXCEPT !.hasInfoYml = TRUE,
                                        !.hasComponentsDir = d.components = "dir"]
         IN IF ~d.ymlReadable
            THEN [valid |-> FALSE, message |-> MsgUnreadable, details |-> found]
            ELSE LET details == [found EXCEPT !.hasName = d.ymlName,
                                              !.isThemeType = d.ymlType,
                                              !.hasCivicThemeBase = d.ymlBase]
                 IN IF ~isValid(details)
                    THEN [valid |-> FALSE,
                          message |-> MsgNotSubTheme
                              \o Mark(~details.hasName,
                                      <<"Missing", "name:", "field in .info.yml">>,
                                      <<"Has name field in .info.yml">>)
                              \o Mark(~details.isThemeType,
                                      <<"Missing or incorrect", "type: theme", "field in .info.yml">>,
                                      <<"Has correct type field in .info.yml">>)
                              \o Mark(~details.hasCivicThemeBase,
                                      <<"Missing or incorrect", "base theme: civictheme",
                                        "field in .info.yml">>,
                                      <<"Has correct base theme field in .info.yml">>)
                              \o Mark(~details.hasComponentsDir,
                                      <<"Missing", "components directory",
                                        "(required for Storybook stories)">>,
                                      <<"Has", "components directory">>),
                          details |-> details]
                    ELSE [valid |-> TRUE, message |-> MsgSubThemeOk, details |-> details]

\* A dirPath that is not a string: path.basename throws a TypeError.
NoPath == <<"<undefined>">>

\* validateSubThemeDirectory(dirPath) on the file system fs: the outer catch
\* for a path that is not a string, the checks above for any other path.
validateSubThemeDirectoryAt(fs, dirPath) ==
    IF dirPath = NoPath
    THEN [valid |-> FALSE, message |-> MsgValidationError, details |-> EmptyDetails]
    ELSE validateSubThemeDirectory(IF dirPath \in DOMAIN fs THEN fs[dirPath] ELSE MissingDir)

\* One call of fs/promises.
FsCall(call, path) == [call |-> call, path |-> path]

\* The validator with a components directory created when there is none.
validatorFsCalls_mkdir(d) ==
    <<FsCall("access", "<basename>.info.yml"), FsCall("access", "components")>>
    \o (IF d.components = "missing" THEN <<FsCall("mkdir", "components")>> ELSE <<>>)

\* The calls of fs/promises the validator makes on the directory, in order.
validatorFsCalls(d) ==
    <<FsCall("access", "<basename>.info.yml")>>
    \o (IF ~d.infoYml THEN <<>>
        ELSE <<FsCall("access", "components")>>
             \o (IF d.components # "missing" THEN <<FsCall("stat", "components")>> ELSE <<>>)
             \o <<FsCall("readFile", "<basename>.info.yml")>>)

\* The directory after one call of fs/promises: access, stat and readFile
\* leave it as it is, mkdir creates what is missing.
fsCall(d, op) ==
    IF op.call = "mkdir" /\ d.exists /\ d.components = "missing"
    THEN [d EXCEPT !.components = "dir"]
    ELSE d

RECURSIVE fsCalls(_, _)
fsCalls(d, ops) == IF ops = <<>> THEN d ELSE fsCalls(fsCall(d, Head(ops)), Tail(ops))

(***************************************************************************)
(* Logger (logger.js).  The .logs directory is the sequence of its files   *)
(* in readdir order; a file is [name, mtime, lines].  A file name is       *)
(* [prefix, stamp, suffix], so that startsWith / endsWith are computed.    *)
(***************************************************************************)
LOG_DIR == ".logs"

MAX_LOG_FILES == 10

LOG_LEVELS == [DEBUG |-> 0, INFO |-> 1, SUCCESS |-> 2, WARNING |-> 3, ERROR |-> 4]

getLogLevelInfo(level) ==
    CASE level = LOG_LEVELS.DEBUG   -> "DEBUG"
      [] level = LOG_LEVELS.INFO    -> "INFO"
      [] level = LOG_LEVELS.SUCCESS -> "SUCCESS"
      [] level = LOG_LEVELS.WARNING -> "WARNING"
      [] level = LOG_LEVELS.ERROR   -> "ERROR"
      [] OTHER                      -> "UNKNOWN"

FileName(prefix, stamp, suffix) == [prefix |-> prefix, stamp |-> stamp, suffix |-> suffix]

\* path.join(LOG_DIR, `sdc-update-${timestamp}.log`): the timestamp has a
\* resolution of one second.
SessionLogName(now) == FileName("sdc-update-", now, ".log")

\* file.startsWith('sdc-update-') && file.endsWith('.log')
IsSessionLog(name) == name.prefix = "sdc-update-" /\ name.suffix = ".log"

Names(dir) == {dir[i].name : i \in DOMAIN dir}

FileAt(dir, name) == CHOOSE i \in DOMAIN dir : dir[i].name = name

\* fs.writeFile(path, content): creates the file or replaces its content.
writeFile(dir, name, content, now) ==
    IF name \in Names(dir)
    THEN [dir EXCEPT ![FileAt(dir, name)] = [name |-> name, mtime |-> now, lines |-> content]]
    ELSE Append(dir, [name |-> name, mtime |-> now, lines |-> content])

\* fs.appendFile(path, line): creates the file when it does not exist.
appendFile(dir, name, line, now) ==
    IF name \in Names(dir)
    THEN [dir EXCEPT ![FileAt(dir, name)] =
              [name |-> name, mtime |-> now, lines |-> Append(@.lines, line)]]
    ELSE Append(dir, [name |-> name, mtime |-> now, lines |-> <<line>>])

\* fs.unlink(path)
unlink(dir, name) == SelectSeq(dir, LAMBDA f : f.name # name)

\* The mtime rotateLogFiles works with: new Date(0) when fs.stat fails.
StatMtime(f, statFailing) == IF f.name \in statFailing THEN 0 ELSE f.mtime

\* InsertNewestFirst with the comparison turned round (a.mtime - b.mtime).
InsertOldestFirst(x, sorted) ==
    LET k == Cardinality({i \in DOMAIN sorted : sorted[i].mtime <= x.mtime})
    IN SubSeq(sorted, 1, k) \o <<x>> \o SubSeq(sorted, k + 1, Len(sorted))

\* One step of a stable sort, newest first (Array.prototype.sort with
\* b.mtime - a.mtime keeps the readdir order of files with equal mtime).
InsertNewestFirst(x, sorted) ==
    LET k == Cardinality({i \in DOMAIN sorted : sorted[i].mtime >= x.mtime})
    IN SubSeq(sorted, 1, k) \o <<x>> \o SubSeq(sorted, k + 1, Len(sorted))

RECURSIVE SortNewestFirst(_)
SortNewestFirst(files) ==
    IF files = <<>> THEN <<>>
    ELSE InsertNewestFirst(files[Len(files)],
                           SortNewestFirst(SubSeq(files, 1, Len(files) - 1)))

\* Index of the first sorted file that rotateLogFiles tries to delete.
FirstDeleted == MAX_LOG_FILES + 1

\* rotateLogFiles(): the directory it leaves, and what it read and did.
rotateLogFiles(dir, statFailing, unlinkFailing) ==
    LET logFiles == SelectSeq(dir, LAMBDA f : IsSessionLog(f.name))
        stats    == [i \in DOMAIN logFiles |->
                        [name |-> logFiles[i].name,
                         mtime |-> StatMtime(logFiles[i], statFailing)]]
        sorted   == SortNewestFirst(stats)
        toDelete == IF Len(sorted) > MAX_LOG_FILES
                    THEN {sorted[i].name : i \in FirstDeleted..Len(sorted)}
                    ELSE {}
        removed  == toDelete \ unlinkFailing
    IN [dir      |-> SelectSeq(dir, LAMBDA f : f.name \notin removed),
        before   |-> dir,
        sorted   |-> sorted,
        toDelete |-> toDelete,
        removed  |-> removed]

\* The logger's module state and the two things it writes to.
LoggerState(cur, dir, out) == [cur |-> cur, dir |-> dir, out |-> out]

\* log with DEBUG entries kept out of the file.
log_filtersDebug(L, level, message, consoleOnly, now, writable) ==
    LET levelName == getLogLevelInfo(level)
        entry     == [level |-> levelName, message |-> message]
        out2      == Append(L.out, entry)
    IN IF ~consoleOnly /\ IsSome(L.cur) /\ level # LOG_LEVELS.DEBUG
       THEN IF writable
            THEN LoggerState(L.cur, appendFile(L.dir, Get(L.cur), entry, now), out2)
            ELSE LoggerState(L.cur, L.dir, out2)
       ELSE LoggerState(L.cur, L.dir, out2)

\* log(level, message, consoleOnly)
log(L, level, message, consoleOnly, now, writable) ==
    LET levelName == getLogLevelInfo(level)
        entry     == [level |-> levelName, message |-> message]
        out2      == Append(L.out, entry)
    IN IF ~consoleOnly /\ IsSome(L.cur)
       THEN IF writable
            THEN LoggerState(L.cur, appendFile(L.dir, Get(L.cur), entry, now), out2)
            ELSE LoggerState(L.cur, L.dir, out2)
       ELSE LoggerState(L.cur, L.dir, out2)

\* A handler's consecutive logger calls, entries being <<level, message>>.
RECURSIVE logAll(_, _, _, _)
logAll(L, entries, now, writable) ==
    IF entries = <<>> THEN L
    ELSE logAll(log(L, entries[1][1], entries[1][2], FALSE, now, writable),
                Tail(entries), now, writable)

Header == [level |-> "HEADER", message |-> <<"CivicTheme SDC Update Tool - Log Session">>]

\* initLogger(): sets currentLogFile, rotates, writes the header, logs.
initLogger(L, now, writable, statFailing, unlinkFailing) ==
    LET cur2 == Some(SessionLogName(now))
        rot  == rotateLogFiles(L.dir, statFailing, unlinkFailing)
        dir2 == IF writable
                THEN writeFile(rot.dir, Get(cur2), <<Header>>, now)
                ELSE rot.dir
    IN [logger   |-> log(LoggerState(cur2, dir2, L.out), LOG_LEVELS.INFO,
                         <<"Logger initialized">>, FALSE, now, writable),
        rotation |-> rot]

\* getCurrentLogFilePath()
getCurrentLogFilePath(L) == L.cur

(***************************************************************************)
(* Schema generation script of step 4 (JsonSchemaGenerator, LLMHandler).   *)
(***************************************************************************)
\* The component templates getAllComponentFiles finds.
Components == <<"c1", "c2">>

\* What one call of analyze() and the JSON.parse after it can come to.
AnalyzeOutcomes == {"ok", "invalid_json", "api_error"}

PROCESS_LIMIT == 100

\* What anthropic.messages.create comes to: a response with its content
\* blocks (each block a text), or a rejection with the error's message.
Reply(content) == [error |-> FALSE, content |-> content, message |-> <<>>]

Failure(message) == [error |-> TRUE, content |-> <<>>, message |-> message]

SchemaText == <<"{schema}">>

ProseText == <<"Here is the schema">>

\* JSON.parse(jsonSchema) does not throw.
IsJson(text) == text = SchemaText

\* The reply behind each outcome of a component in a world.
ServiceReply(outcome) ==
    CASE outcome = "ok"           -> Reply(<<SchemaText>>)
      [] outcome = "invalid_json" -> Reply(<<ProseText>>)
      [] outcome = "api_error"    -> Failure(<<"<cause>">>)

\* analyze with a second attempt after a failed request.
analyze_retries(reply) ==
    IF reply.error
    THEN [threw |-> TRUE, message |-> <<"API Error:">> \o reply.message, text |-> <<>>,
          requests |-> 2]
    ELSE IF reply.content = <<>>
    THEN [threw |-> TRUE, message |-> <<"API Error:", "Cannot read properties of undefined">>,
          text |-> <<>>, requests |-> 1]
    ELSE [threw |-> FALSE, message |-> <<>>, text |-> reply.content[1], requests |-> 1]

\* LLMHandler.analyze: one messages.create; the text of the first content
\* block, or a thrown Error whose message is 'API Error: ' + the message of
\* whatever was thrown inside the try block (the rejection of the request,
\* or the TypeError of reading content[0].text of a response without
\* content).
analyze(reply) ==
    IF reply.error
    THEN [threw |-> TRUE, message |-> <<"API Error:">> \o reply.message, text |-> <<>>,
          requests |-> 1]
    ELSE IF reply.content = <<>>
    THEN [threw |-> TRUE, message |-> <<"API Error:", "Cannot read properties of undefined">>,
          text |-> <<>>, requests |-> 1]
    ELSE [threw |-> FALSE, message |-> <<>>, text |-> reply.content[1], requests |-> 1]

\* JsonSchemaGenerator.process: the loop over the component files, `todo`
\* being the files not yet visited and r the results so far.
RECURSIVE processFiles(_, _, _)
processFiles(todo, outcomes, r) ==
    IF todo = <<>> THEN r
    ELSE LET file == Head(todo)
         IN IF file \in r.outputs
            THEN processFiles(Tail(todo), outcomes, r)
            ELSE LET answer == analyze(ServiceReply(outcomes[file]))
                     good   == ~answer.threw /\ IsJson(answer.text)
                     r2     == [successful |-> IF good THEN Append(r.successful, file)
                                               ELSE r.successful,
                                failed     |-> IF good THEN r.failed
                                               ELSE Append(r.failed, file),
                                calls      |-> Append(r.calls, file),
                                apiErrors  |-> IF answer.threw THEN r.apiErrors + 1
                                               ELSE r.apiErrors,
                                outputs    |-> IF good THEN r.outputs \cup {file}
                                               ELSE r.outputs,
                                processed  |-> r.processed + 1]
                 IN IF PROCESS_LIMIT <= r2.processed
                    THEN r2
                    ELSE processFiles(Tail(todo), outcomes, r2)

process(outputs, outcomes) ==
    processFiles(Components, outcomes,
                 [successful |-> <<>>, failed |-> <<>>, calls |-> <<>>,
                  apiErrors |-> 0, outputs |-> outputs, processed |-> 0])

\* SchemaScriptExit of a script that ends with status 1 after an API error.
SchemaScriptExit_failsOnError(results) == IF results.apiErrors > 0 THEN 1 ELSE 0

\* Exit status of the step 4 script: process() catches every error of a
\* file and main() ends normally, whatever the results hold.
SchemaScriptExit(results) == 0

\* The run of the script followed call by call.  todo: the component files
\* the loop has not reached; submitted: the calls of this.analyze in the
\* order they were made; queue: calls the throttle holds back; inflight:
\* calls whose request is with the service; dispatched: the calls in the
\* order the throttle let them through; requests: one entry per
\* messages.create; returned: what every finished call came to.
IdleLlm ==
    [pc |-> "idle", todo |-> <<>>, submitted |-> <<>>, queue |-> {}, inflight |-> {},
     dispatched |-> <<>>, requests |-> <<>>, returned |-> <<>>,
     successful |-> <<>>, failed |-> <<>>, outputs |-> {}, processed |-> 0,
     existing |-> {}, written |-> <<>>, report |-> <<>>]

\* process() at the head of its loop over the files getAllComponentFiles
\* found, outputs being the schema files already written.
startLlm(files, outputs) ==
    [IdleLlm EXCEPT !.pc = "loop", !.todo = files, !.outputs = outputs, !.existing = outputs]

\* main(): process('components') is called and not awaited.  It has emptied
\* the results and waits for getAllComponentFiles when main goes on.
main(files, outputs) == [startLlm(files, outputs) EXCEPT !.pc = "main"]

\* LLMHandler.report() as main calls it: the counts of the results as they
\* are now; after it the loop of process() is taken up.
report(l) ==
    [l EXCEPT !.report = Some([successful |-> Len(l.successful), failed |-> Len(l.failed)]),
              !.pc = "loop"]

\* afterSubmit of a loop that does not await the call it has made.
afterSubmit_noAwait(l) == "loop"

\* Where the loop is once it has called this.analyze: `await` suspends it
\* until the call has returned or thrown.
afterSubmit(l) == "awaiting"

\* nextFile without the look at the output file.
nextFile_noSkip(l) ==
    IF l.todo = <<>> THEN [l EXCEPT !.pc = "done"]
    ELSE [l EXCEPT !.todo = Tail(l.todo),
                   !.submitted = Append(l.submitted, Head(l.todo)),
                   !.queue = l.queue \cup {Head(l.todo)},
                   !.pc = afterSubmit(l)]

\* One pass through the head of the loop: the end of the loop, a file
\* skipped because its schema exists, or a call of the throttled analyze.
nextFile(l) ==
    IF l.todo = <<>> THEN [l EXCEPT !.pc = "done"]
    ELSE LET file == Head(l.todo)
         IN IF file \in l.outputs
            THEN [l EXCEPT !.todo = Tail(l.todo)]
            ELSE [l EXCEPT !.todo = Tail(l.todo),
                           !.submitted = Append(l.submitted, file),
                           !.queue = l.queue \cup {file},
                           !.pc = afterSubmit(l)]

\* The throttle lets call c through: the body of analyze starts.
dispatch(l, c) ==
    [l EXCEPT !.queue = l.queue \ {c},
              !.inflight = l.inflight \cup {c},
              !.dispatched = Append(l.dispatched, c)]

\* The request of call c comes to reply: analyze returns or throws, and
\* the loop body goes on with JSON.parse, output and the results.
settle(l, c, reply) ==
    LET answer == analyze(reply)
        good   == ~answer.threw /\ IsJson(answer.text)
        done   == l.processed + 1
    IN [l EXCEPT !.inflight = l.inflight \ {c},
                 !.requests = l.requests \o [i \in 1..answer.requests |-> c],
                 !.returned = Append(l.returned,
                                     [file |-> c, reply |-> reply, threw |-> answer.threw,
                                      message |-> answer.message, text |-> answer.text]),
                 !.successful = IF good THEN Append(l.successful, c) ELSE l.successful,
                 !.failed = IF good THEN l.failed ELSE Append(l.failed, c),
                 !.outputs = IF good THEN l.outputs \cup {c} ELSE l.outputs,
                 !.written = IF good
                             THEN Append(l.written, [file |-> c, text |-> answer.text])
                             ELSE l.written,
                 !.processed = done,
                 !.pc = IF l.pc = "awaiting"
                        THEN (IF PROCESS_LIMIT <= done THEN "done" ELSE "loop")
                        ELSE l.pc]

(***************************************************************************)
(* Update runner (update-runner.js).                                       *)
(***************************************************************************)
Script(path, ext) == [path |-> path, ext |-> ext]

Step(id, name, script) == [id |-> id, name |-> name, script |-> script]

UPDATE_STEPS ==
    << Step("step1", "Update Storybook configuration",
            Script("./scripts/step1-update-storybook.sh", ".sh")),
       Step("step2", "Update theme files and add SDC namespacing",
            Script("./scripts/step2-update-twig.mjs", ".mjs")),
       Step("step3", "Clean up temporary files",
            Script("./scripts/step3-remove-monorepo.sh", ".sh")),
       Step("step4", "Generate JSON schemas from Twig templates",
            Script("./scripts/step4-generate-component-json-schema.mjs", ".mjs")),
       Step("step5", "Convert JSON schemas to SDC YAML",
            Script("./scripts/step5-generate-sdc-component-schema.mjs", ".mjs")),
       Step("step6", "Move generated YAML files to subtheme",
            Script("./scripts/step6-move-yml.sh", ".sh")) >>

NumSteps == Len(UPDATE_STEPS)

StepNumbers == 1..NumSteps

\* The step whose script calls the LLM service.
AI_STEP == 4

\* runScript with bash for every path that is neither .mjs nor missing.
runScript_bashByDefault(script, exists) ==
    IF ~exists
    THEN [spawn |-> FALSE, command |-> "", message |-> <<"Script not found:", script.path>>]
    ELSE IF script.ext = ".mjs"
    THEN [spawn |-> TRUE, command |-> "node", message |-> <<>>]
    ELSE [spawn |-> TRUE, command |-> "bash", message |-> <<>>]

\* runScript up to the start of the child process: the command chosen from
\* the script path, or the error thrown before any process is started.
runScript(script, exists) ==
    IF ~exists
    THEN [spawn |-> FALSE, command |-> "", message |-> <<"Script not found:", script.path>>]
    ELSE IF script.ext = ".mjs"
    THEN [spawn |-> TRUE, command |-> "node", message |-> <<>>]
    ELSE IF script.ext = ".sh"
    THEN [spawn |-> TRUE, command |-> "bash", message |-> <<>>]
    ELSE [spawn |-> FALSE, command |-> "", message |-> <<"Unsupported script type:", script.path>>]

\* { ...env, ...process.env }: the inherited value wins.
mergeEnv_inheritedWins(penv, env) ==
    [k \in DOMAIN penv \cup DOMAIN env |->
        IF k \in DOMAIN penv /\ IsSome(penv[k]) THEN penv[k] ELSE Some(env[k])]

\* { ...process.env, ...env }
mergeEnv(penv, env) ==
    [k \in DOMAIN penv \cup DOMAIN env |->
        IF k \in DOMAIN env THEN Some(env[k]) ELSE penv[k]]

\* The scriptEnv runUpdate builds from the loaded configuration.
scriptEnv(config) ==
    [SUBTHEME_DIRECTORY    |-> config.subthemeDirectory,
     ANTHROPIC_API_KEY     |-> config.anthropicApiKey,
     ANTHROPIC_MODEL       |-> config.anthropicModel,
     CIVICTHEME_UIKIT_PATH |-> config.subthemeDirectory]

\* error.message of a child that ended with a non-zero status, as runScript
\* rethrows it.
execFailure(command, script, stdout, stderr) ==
    LET base == <<"Command failed:", command, script.path>>
    IN IF stdout # <<>> \/ stderr # <<>>
       THEN <<"Script execution failed:">> \o base
                \o <<"Stdout:">> \o stdout \o <<"Stderr:">> \o stderr
       ELSE base

\* stepError with the loop index in place of the 1-based step number.
stepError_zeroBased(stepNumber, message) ==
    <<"Step", ToString(stepNumber - 1), "failed:">> \o message

\* new Error(`Step ${stepNumber} failed: ${error.message}`)
stepError(stepNumber, message) == <<"Step", ToString(stepNumber), "failed:">> \o message

\* new Error(`Invalid configuration: ${configStatus.message}`)
configError(message) == <<"Invalid configuration:">> \o message

Statuses == {"Pending", "Running", "Succeeded", "Failed"}

\* effectsAfter with a rollback of the completed steps on failure.
effectsAfter_rollback(done, i, exit) == IF exit = 0 THEN done \cup {i} ELSE {}

\* What is on disk after the child of step i ended with status exit: the
\* runner undoes nothing of the steps that completed.
effectsAfter(done, i, exit) == IF exit = 0 THEN done \cup {i} ELSE done

\* Where main() is once runUpdate has moved to state r: inside the awaited
\* call while the loop goes on, back at the menu when it returned or threw.
mainAfter(r) == IF r.pc = "steps" THEN "running" ELSE "menu"

\* The state of one invocation of runUpdate.
IdleRun ==
    [pc |-> "idle", step |-> 0, status |-> [i \in StepNumbers |-> "Pending"],
     started |-> <<>>, children |-> <<>>, error |-> <<>>, failedStep |-> 0,
     valid |-> FALSE, facts |-> <<>>, config |-> <<>>, ai |-> <<>>]

\* beginRun with the loop taken up at the second step.
beginRun_skipsFirst(config, facts) ==
    [IdleRun EXCEPT !.pc = "steps", !.step = 2, !.valid = TRUE,
                    !.facts = Some(facts), !.config = Some(config)]

\* runUpdate after a successful validation: the loop starts at index 0.
beginRun(config, facts) ==
    [IdleRun EXCEPT !.pc = "steps", !.step = 1, !.valid = TRUE,
                    !.facts = Some(facts), !.config = Some(config)]

\* runUpdate when validateConfig returned valid=false: throws at once.
rejectInvalid(message, facts) ==
    [IdleRun EXCEPT !.pc = "rejected", !.error = configError(message),
                    !.facts = Some(facts)]

\* failStep with the error logged but not rethrown: the loop goes on.
failStep_goesOn(run, i, message) ==
    [run EXCEPT !.status[i] = "Failed",
                !.error = stepError(i, message), !.failedStep = i,
                !.step = i + 1,
                !.pc = IF i = NumSteps THEN "completed" ELSE "steps"]

\* The catch block of the loop body: the error is rethrown, the loop ends.
failStep(run, i, message) ==
    [run EXCEPT !.pc = "rejected", !.status[i] = "Failed",
                !.error = stepError(i, message), !.failedStep = i]

\* The end of the loop body: the next iteration, or the end of the loop.
passStep(run, i) ==
    [run EXCEPT !.status[i] = "Succeeded",
                !.step = i + 1,
                !.pc = IF i = NumSteps THEN "completed" ELSE "steps"]

(***************************************************************************)
(* State.                                                                  *)
(***************************************************************************)
VARIABLES
    cliPc,          \* where main() of index.js is
    configStatus,   \* the validateConfig result of the current menu iteration
    choices,        \* the choices the current menu offers
    actions,        \* menu actions taken in this session
    externals,      \* changes made from outside the process so far
    envFile,        \* content of .env, absent or one raw value per key
    processEnv,     \* process.env of the CLI process
    fsDirs,         \* the directories on disk the configuration may name
    currentLogFile, \* the logger's module variable
    logDir,         \* the files of .logs
    console,        \* what the logger printed
    clock,          \* wall clock, in seconds
    logWritable,    \* whether writes to the session log file succeed
    statFails,      \* files of .logs on which fs.stat fails
    unlinkFails,    \* files of .logs on which fs.unlink fails
    rotation,       \* what the last rotateLogFiles read and did
    run,            \* the current or last invocation of runUpdate
    effects,        \* steps whose effects are on disk
    schemaOut,      \* components whose schema file step 4 has written
    world,          \* the scripts on disk and how their processes end
    lastSaved,      \* the configuration last given to saveConfig
    lastLoaded,     \* the result of the loadConfig that followed it
    cfgOps,         \* calls made to the configuration store
    lastCall,       \* the last direct call of a library function, with its result
    unitOps,        \* direct calls of library functions made so far
    schemaRun,      \* the run of the schema generation script, call by call
    script          \* the run of one of the other scripts, started on its own

cliVars == <<cliPc, configStatus, choices, actions, externals>>

cfgVars == <<envFile, processEnv, fsDirs>>

logVars == <<currentLogFile, logDir, console, rotation>>

ioVars == <<logWritable, statFails, unlinkFails>>

runVars == <<run, effects, schemaOut, world>>

storeVars == <<lastSaved, lastLoaded, cfgOps>>

unitVars == <<lastCall, unitOps, schemaRun, script>>

vars == <<cliVars, cfgVars, logVars, clock, ioVars, runVars, storeVars, unitVars>>

Logger == LoggerState(currentLogFile, logDir, console)

\* No script is followed on its own.
NoScript == [name |-> "none"]

\* No library function has been called directly, no script is followed.
UnitIdle ==
    /\ lastCall = None
    /\ unitOps = 0
    /\ schemaRun = IdleLlm
    /\ script = NoScript

\* A direct call of a library function: which, the how-manieth, with what.
Call(op, n, args) == Some([op |-> op, n |-> n, args |-> args])

SetLogger(L) ==
    /\ currentLogFile' = L.cur
    /\ logDir' = L.dir
    /\ console' = L.out

Info(m) == <<LOG_LEVELS.INFO, m>>

Debug(m) == <<LOG_LEVELS.DEBUG, m>>

Success(m) == <<LOG_LEVELS.SUCCESS, m>>

Warning(m) == <<LOG_LEVELS.WARNING, m>>

Error(m) == <<LOG_LEVELS.ERROR, m>>

(***************************************************************************)
(* Inputs.                                                                 *)
(***************************************************************************)
DirNames == {<<"d1">>, <<"d2">>}

EnvFile(dir, key, model) ==
    Some([SUBTHEME_DIRECTORY |-> dir, ANTHROPIC_API_KEY |-> key, ANTHROPIC_MODEL |-> model])

\* Contents .env may have when the session starts or after a manual edit.
EnvFiles ==
    {None, EnvFile(<<"d1">>, <<"k1">>, <<"m1">>), EnvFile(<<"d2">>, <<"k1">>, <<"m1">>),
     EnvFile(<<>>, <<"k1">>, <<"m1">>), EnvFile(<<"d1">>, <<>>, <<>>)}

NoEnv == [k \in ProcessKeys |-> IF k = "PATH" THEN Some(<<"/usr/bin">>) ELSE None]

\* The environment the CLI process inherits: nothing of the configuration,
\* or values exported in the shell that started it.
InheritedEnvs ==
    {NoEnv,
     [NoEnv EXCEPT !["SUBTHEME_DIRECTORY"] = Some(<<"d2">>),
                   !["ANTHROPIC_API_KEY"] = Some(<<"k0">>)]}

\* mtime of the i-th of n files earlier sessions left in .logs.
PreMtime(layout, i, n) ==
    CASE layout = "asc"   -> i
      [] layout = "desc"  -> n + 1 - i
      [] layout = "same"  -> 1
      [] layout = "mixed" -> 1 + ((i * 7) % (n + 1))

Layouts == {"asc", "desc", "same", "mixed"}

\* .logs as earlier sessions left it: n session files, and the log files
\* the step scripts write next to them.
PreDir(n, layout, others) ==
    [i \in 1..n |-> [name  |-> FileName("sdc-update-", 0 - i, ".log"),
                     mtime |-> PreMtime(layout, i, n),
                     lines |-> <<Header>>]]
    \o [j \in 1..others |-> [name  |-> FileName("update-", 0 - j, ".log"),
                             mtime |-> 0 + j,
                             lines |-> <<>>]]

ClockStart == MaxPre + 2

(***************************************************************************)
(* main() of index.js.                                                     *)
(***************************************************************************)
\* logger.initLogger(); logger.info('Starting SDC Update Tool')
Main_Init ==
    /\ cliPc = "boot"
    /\ LET init == initLogger(Logger, clock, logWritable, statFails, unlinkFails)
       IN /\ SetLogger(logAll(init.logger, <<Info(<<"Starting SDC Update Tool">>)>>,
                              clock, logWritable))
          /\ rotation' = Some(init.rotation)
    /\ cliPc' = "menu"
    /\ UNCHANGED <<configStatus, choices, actions, externals, cfgVars, clock,
                   ioVars, runVars, storeVars, unitVars>>

\* The choices of one menu iteration.
menuChoices(status) ==
    (IF status.valid THEN {"run_update"} ELSE {}) \cup {"configure_application", "exit"}

\* The head of the while loop: validateConfig, showConfigStatus, the menu.
MenuShow ==
    /\ cliPc = "menu"
    /\ LET status == validateConfig(envFile, processEnv, fsDirs)
       IN /\ configStatus' = [valid |-> status.valid, message |-> status.message]
          /\ choices' = menuChoices(status)
          /\ processEnv' = status.env
    /\ cliPc' = "prompt"
    /\ UNCHANGED <<actions, externals, envFile, fsDirs, logVars, clock, ioVars,
                   runVars, storeVars, unitVars>>

\* case 'exit'
Choose_Exit ==
    /\ cliPc = "prompt"
    /\ "exit" \in choices
    /\ SetLogger(logAll(Logger, <<Info(<<"User selected: Exit application">>)>>,
                        clock, logWritable))
    /\ cliPc' = "exited"
    /\ UNCHANGED <<configStatus, choices, actions, externals, cfgVars, rotation,
                   clock, ioVars, runVars, storeVars, unitVars>>

(***************************************************************************)
(* configureApplication() of wizard.mjs.                                   *)
(***************************************************************************)
\* What validateSubThemeDirectory logs for a directory.
validatorEntries(d) ==
    <<Info(<<"Validating directory">>)>>
    \o (IF ~d.infoYml
        THEN <<Warning(<<"Could not find", "<basename>.info.yml">>)>>
        ELSE <<Debug(<<"Found", "<basename>.info.yml">>),
               IF d.components = "dir" THEN Debug(<<"Found components directory">>)
               ELSE IF d.components = "file"
                    THEN Warning(<<"Components path exists but is not a directory">>)
                    ELSE Warning(<<"Could not access components directory">>)>>
             \o (IF ~d.ymlReadable
                 THEN <<Error(<<"Failed to read or parse .info.yml file:">>)>>
                 ELSE <<Debug(<<"Successfully read .info.yml file">>),
                        Debug(<<"YAML validation">>),
                        IF validateSubThemeDirectory(d).valid
                        THEN Success(<<"Successfully validated CivicTheme sub-theme directory">>)
                        ELSE Warning(<<"Validation failed">>)>>))

\* What validateSubThemeDirectory(dirPath) logs.
validatorEntriesAt(fs, dirPath) ==
    IF dirPath = NoPath
    THEN <<Info(<<"Validating directory">>), Error(<<"Validation error:">>)>>
    ELSE validatorEntries(IF dirPath \in DOMAIN fs THEN fs[dirPath] ELSE MissingDir)

\* directoryPromptAccepts without the sub-theme validation.
directoryPromptAccepts_accessOnly(fs, dir) == Accessible(fs, dir)

\* The validate callback of the directory prompt: fs.access, then the
\* sub-theme validation; only a directory that passes can be submitted.
directoryPromptAccepts(fs, dir) ==
    /\ Accessible(fs, dir)
    /\ validateSubThemeDirectory(fs[dir]).valid

\* The validate callback of the API key and model prompts.
promptAcceptsText(value) == value # <<>> /\ dotenvParseValue(value) # <<>>

KeyInputs == {<<"k2">>}

ModelInputs == {<<"m2">>}

\* The whole wizard: initLogger, the prompts, saveConfig.  saved tells
\* whether writing .env succeeded; when it fails the error leaves main()'s
\* loop and the process exits with status 1.
Choose_Configure ==
    /\ cliPc = "prompt"
    /\ "configure_application" \in choices
    /\ actions < MaxActions
    /\ \E dir \in DirNames, key \in KeyInputs, useDefaultModel \in BOOLEAN,
          model \in ModelInputs, saved \in BOOLEAN :
        /\ directoryPromptAccepts(fsDirs, dir)
        /\ promptAcceptsText(key)
        /\ promptAcceptsText(model)
        /\ LET L1       == logAll(Logger, <<Info(<<"User selected: Configure application">>)>>,
                                  clock, logWritable)
               init     == initLogger(L1, clock, logWritable, statFails, unlinkFails)
               existing == loadConfig(envFile, processEnv)
               L2       == logAll(init.logger,
                                  <<Info(<<"Starting configuration wizard">>)>>
                                      \o validatorEntries(fsDirs[dir]),
                                  clock, logWritable)
               config   == [subthemeDirectory |-> dir,
                            anthropicApiKey   |-> key,
                            anthropicModel    |->
                                IF useDefaultModel
                                THEN OrElse(existing.config.anthropicModel, DEFAULT_MODEL)
                                ELSE model]
           IN /\ rotation' = Some(init.rotation)
              /\ processEnv' = existing.env
              /\ IF saved
                 THEN /\ envFile' = saveConfig(config)
                      /\ lastSaved' = Some(config)
                      /\ SetLogger(logAll(L2, <<Success(<<"Configuration saved successfully">>)>>,
                                          clock, logWritable))
                      /\ cliPc' = "menu"
                 ELSE /\ envFile' = envFile
                      /\ lastSaved' = lastSaved
                      /\ SetLogger(logAll(L2, <<Error(<<"Failed to save configuration:">>),
                                                Error(<<"Application error:">>)>>,
                                          clock, logWritable))
                      /\ cliPc' = "crashed"
    /\ actions' = actions + 1
    /\ UNCHANGED <<configStatus, choices, externals, fsDirs, clock, ioVars,
                   runVars, lastLoaded, cfgOps, unitVars>>

(***************************************************************************)
(* runUpdate() of update-runner.js, one action per stretch between the     *)
(* points where it waits for a child process.                              *)
(***************************************************************************)
\* What is true of the configuration when a run starts.
runFacts(file, penv, fs) ==
    LET config == loadConfig(file, penv).config
    IN [fileExists   |-> IsSome(file),
        dirGiven     |-> config.subthemeDirectory # <<>>,
        dirOnDisk    |-> Accessible(fs, config.subthemeDirectory),
        keyGiven     |-> config.anthropicApiKey # <<>>,
        eligible     |-> /\ Accessible(fs, config.subthemeDirectory)
                         /\ validateSubThemeDirectory(fs[config.subthemeDirectory]).valid]

\* What every failure of runUpdate logs on its way to the menu: the catch
\* of runUpdate, then the catch of main()'s switch.
failureEntries(message) ==
    <<Error(<<"Error running SDC update:">> \o message),
      Error(<<"Update process failed:">> \o message)>>

\* case 'run_update', up to the first step: validateConfig, loadConfig.
Choose_Run ==
    /\ cliPc = "prompt"
    /\ "run_update" \in choices
    /\ actions < MaxActions
    /\ LET status == validateConfig(envFile, processEnv, fsDirs)
           loaded == loadConfig(envFile, status.env)
           facts  == runFacts(envFile, processEnv, fsDirs)
           L1     == logAll(Logger, <<Info(<<"User selected: Run SDC update">>),
                                      Info(<<"Starting SDC update process">>)>>,
                            clock, logWritable)
       IN /\ processEnv' = loaded.env
          /\ IF status.valid
             THEN /\ run' = beginRun(loaded.config, facts)
                  /\ SetLogger(logAll(L1, <<Info(<<"Loaded configuration for subtheme:">>
                                                     \o loaded.config.subthemeDirectory)>>,
                                      clock, logWritable))
                  /\ cliPc' = mainAfter(run')
             ELSE /\ run' = rejectInvalid(status.message, facts)
                  /\ SetLogger(logAll(L1, <<Error(configError(status.message))>>
                                              \o failureEntries(configError(status.message)),
                                      clock, logWritable))
                  /\ cliPc' = mainAfter(run')
    /\ actions' = actions + 1
    /\ UNCHANGED <<configStatus, choices, externals, envFile, fsDirs, rotation,
                   clock, ioVars, effects, schemaOut, world, storeVars, unitVars>>

\* The loop body up to the start of the child process: a script that is
\* missing, or of an unsupported type, fails the step before any process.
StepBegin ==
    /\ cliPc = "running"
    /\ run.pc = "steps"
    /\ run.status[run.step] = "Pending"
    /\ LET i     == run.step
            step  == UPDATE_STEPS[i]
            pre   == runScript(step.script, i \in world.scripts)
            L1    == logAll(Logger, <<Info(<<"Starting step", ToString(i), step.name>>),
                                      Debug(<<"Step details:">>),
                                      Info(<<"Executing script:", step.script.path>>)>>,
                            clock, logWritable)
            begun == [run EXCEPT !.started = Append(@, i)]
       IN IF pre.spawn
           THEN /\ run' = [begun EXCEPT
                             !.status[i] = "Running",
                             !.children = Append(@, [step    |-> i,
                                                     command |-> pre.command,
                                                     script  |-> step.script.path,
                                                     env     |-> mergeEnv(processEnv,
                                                                     scriptEnv(Get(run.config)))])]
                /\ SetLogger(logAll(L1, <<Debug(<<"Script exists:", step.script.path>>),
                                          Debug(<<"Running as", pre.command>>),
                                          Debug(<<"Script environment prepared">>)>>,
                                    clock, logWritable))
                /\ cliPc' = mainAfter(run')
           ELSE /\ run' = failStep(begun, i, pre.message)
                /\ SetLogger(logAll(L1, <<Error(pre.message),
                                          Error(stepError(i, pre.message))>>
                                            \o failureEntries(stepError(i, pre.message)),
                                    clock, logWritable))
                /\ cliPc' = mainAfter(run')
    /\ UNCHANGED <<configStatus, choices, actions, externals, cfgVars, rotation,
                   clock, ioVars, effects, schemaOut, world, storeVars, unitVars>>

\* How a child process can end: exit status and captured output.
Outcome(exit, stdout, stderr) == [exit |-> exit, stdout |-> stdout, stderr |-> stderr]

Quiet == Outcome(0, <<"<stdout>">>, <<>>)

Warned == Outcome(0, <<>>, <<"<stderr>">>)

SilentFailure == Outcome(1, <<>>, <<>>)

LoudFailure == Outcome(1, <<"<stdout>">>, <<"<stderr>">>)

\* The world in which every script is there, ends with status 0 and gets
\* an answer to every LLM call.
OkWorld ==
    [scripts |-> StepNumbers,
     outcome |-> [i \in StepNumbers |-> Quiet],
     llm     |-> [c \in Range(Components) |-> "ok"]]

MissingAt(i) == [OkWorld EXCEPT !.scripts = StepNumbers \ {i}]

EndsAt(i, o) == [OkWorld EXCEPT !.outcome[i] = o]

Answering(w, llm) == [w EXCEPT !.llm = llm]

LlmAnswers == [Range(Components) -> AnalyzeOutcomes]

\* The worlds a run of the update is followed in.
RunWorlds ==
    {OkWorld}
    \cup {MissingAt(i) : i \in StepNumbers}
    \cup {EndsAt(i, o) : i \in StepNumbers, o \in {Warned, SilentFailure, LoudFailure}}
    \cup {Answering(OkWorld, llm) : llm \in LlmAnswers}
    \cup {Answering(w, [c \in Range(Components) |-> "api_error"]) :
              w \in {MissingAt(5), EndsAt(6, LoudFailure)}}

\* The worlds a whole CLI session is followed in.
SessionWorlds ==
    {OkWorld, EndsAt(2, LoudFailure),
     Answering(OkWorld, [c \in Range(Components) |-> IF c = "c1" THEN "api_error" ELSE "ok"])}

SessionStart(file, penv, writable, w) ==
    [envFile |-> file, processEnv |-> penv, logWritable |-> writable, world |-> w]

\* What a CLI session is started with: the .env file found, the environment
\* inherited, whether .logs can be written, and the world of the steps.
SessionStarts ==
    {SessionStart(file, NoEnv, TRUE, OkWorld) : file \in EnvFiles}
    \cup {SessionStart(EnvFile(<<"d1">>, <<"k1">>, <<"m1">>), NoEnv, TRUE, w) : w \in SessionWorlds}
    \cup {SessionStart(EnvFile(<<"d1">>, <<>>, <<>>), penv, TRUE, OkWorld) : penv \in InheritedEnvs}
    \cup {SessionStart(EnvFile(<<"d1">>, <<"k1">>, <<"m1">>), NoEnv, FALSE, EndsAt(2, LoudFailure))}

\* What the loop body logs after a child that ended with status 0.
successEntries(i, o) ==
    <<Info(<<"Script execution completed">>)>>
    \o (IF o.stdout # <<>> THEN <<Debug(<<"Step", ToString(i), "stdout:">> \o o.stdout)>> ELSE <<>>)
    \o (IF o.stderr # <<>> THEN <<Warning(<<"Step", ToString(i), "stderr:">> \o o.stderr)>> ELSE <<>>)
    \o <<Success(<<"Step", ToString(i), "completed successfully">>)>>

\* What runUpdate logs after the loop.
summaryEntries ==
    <<Info(<<"Total execution time:">>), Info(<<"Step timing breakdown:">>)>>
    \o [i \in StepNumbers |-> Info(<<"-", UPDATE_STEPS[i].name>>)]
    \o <<Success(<<"SDC update process completed successfully">>)>>

\* The rest of the loop body once the child has ended with outcome o.
FinishStep(i, o, ai) ==
    LET step == UPDATE_STEPS[i]
        child == run.children[Len(run.children)]
    IN IF o.exit = 0
       THEN /\ run' = [passStep(run, i) EXCEPT !.ai = ai]
            /\ effects' = effectsAfter(effects, i, o.exit)
            /\ SetLogger(logAll(Logger,
                                successEntries(i, o)
                                    \o (IF i = NumSteps THEN summaryEntries ELSE <<>>),
                                clock, logWritable))
            /\ cliPc' = mainAfter(run')
       ELSE LET message == execFailure(child.command, step.script, o.stdout, o.stderr)
            IN /\ run' = [failStep(run, i, message) EXCEPT !.ai = ai]
               /\ effects' = effectsAfter(effects, i, o.exit)
               /\ SetLogger(logAll(Logger,
                                   (IF o.stdout # <<>> \/ o.stderr # <<>>
                                    THEN <<Error(message), Debug(<<"Script stdout:">>),
                                           Debug(<<"Script stderr:">>)>>
                                    ELSE <<>>)
                                       \o <<Error(stepError(i, message))>>
                                       \o failureEntries(stepError(i, message)),
                                   clock, logWritable))
               /\ cliPc' = mainAfter(run')

\* The child of a step other than step 4 ends.
StepEnd ==
    /\ cliPc = "running"
    /\ run.pc = "steps"
    /\ run.status[run.step] = "Running"
    /\ run.step # AI_STEP
    /\ FinishStep(run.step, world.outcome[run.step], run.ai)
    /\ UNCHANGED <<configStatus, choices, actions, externals, cfgVars, rotation,
                   clock, ioVars, schemaOut, world, storeVars, unitVars>>

\* The child of step 4 ends: the schema script has called the LLM service
\* for the components without a schema file, unless node could not run
\* it (a non-zero status in world.outcome).
StepEnd_AI ==
    /\ cliPc = "running"
    /\ run.pc = "steps"
    /\ run.status[run.step] = "Running"
    /\ run.step = AI_STEP
    /\ LET crashed == world.outcome[AI_STEP].exit # 0
            results == process(schemaOut, world.llm)
            exit    == IF crashed THEN world.outcome[AI_STEP].exit ELSE SchemaScriptExit(results)
            o       == IF crashed THEN world.outcome[AI_STEP]
                       ELSE Outcome(exit, <<"<stdout>">>,
                                    IF results.failed # <<>> THEN <<"<stderr>">> ELSE <<>>)
            ai      == IF crashed
                       THEN [crashed |-> TRUE, calls |-> 0, apiErrors |-> 0, failed |-> 0]
                       ELSE [crashed |-> FALSE, calls |-> Len(results.calls),
                             apiErrors |-> results.apiErrors, failed |-> Len(results.failed)]
       IN /\ schemaOut' = IF crashed THEN schemaOut ELSE results.outputs
          /\ FinishStep(AI_STEP, o, Some(ai))
    /\ UNCHANGED <<configStatus, choices, actions, externals, cfgVars, rotation,
                   clock, ioVars, world, storeVars, unitVars>>

(***************************************************************************)
(* The world around the process.                                           *)
(***************************************************************************)
\* A second passes while the process waits at the start or at the menu.
Tick ==
    /\ cliPc \in {"boot", "prompt"}
    /\ clock < ClockStart + MaxClock
    /\ clock' = clock + 1
    /\ UNCHANGED <<cliVars, cfgVars, logVars, ioVars, runVars, storeVars, unitVars>>

\* While the menu waits, .env is edited or removed by hand.
ExternalEnvEdit ==
    /\ cliPc = "prompt"
    /\ externals < MaxExternal
    /\ \E file \in {None, EnvFile(<<"d2">>, <<"k1">>, <<"m1">>)} :
        file # envFile /\ envFile' = file
    /\ externals' = externals + 1
    /\ UNCHANGED <<cliPc, configStatus, choices, actions, processEnv, fsDirs,
                   logVars, clock, ioVars, runVars, storeVars, unitVars>>

\* What is done to the directories behind the back of the process: the
\* configured sub-theme is removed, the other directory is made a sub-theme.
DirChanges == {[dir |-> <<"d1">>, to |-> MissingDir], [dir |-> <<"d2">>, to |-> EligibleDir]}

\* While the menu waits, a directory is removed or made a sub-theme.
ExternalDirChange ==
    /\ cliPc = "prompt"
    /\ externals < MaxExternal
    /\ \E change \in DirChanges :
        /\ change.to # fsDirs[change.dir]
        /\ fsDirs' = [fsDirs EXCEPT ![change.dir] = change.to]
    /\ externals' = externals + 1
    /\ UNCHANGED <<cliPc, configStatus, choices, actions, envFile, processEnv,
                   logVars, clock, ioVars, runVars, storeVars, unitVars>>

(***************************************************************************)
(* Specification of one CLI session.                                       *)
(***************************************************************************)
Init ==
    /\ cliPc = "boot"
    /\ configStatus = [valid |-> FALSE, message |-> <<>>]
    /\ choices = {}
    /\ actions = 0
    /\ externals = 0
    /\ \E start \in SessionStarts :
        /\ envFile = start.envFile
        /\ processEnv = start.processEnv
        /\ logWritable = start.logWritable
        /\ world = start.world
    /\ fsDirs = [d \in DirNames |-> IF d = <<"d1">> THEN EligibleDir ELSE WrongBaseDir]
    /\ currentLogFile = None
    /\ logDir = PreDir(2, "asc", 1)
    /\ console = <<>>
    /\ clock = ClockStart
    /\ statFails = {}
    /\ unlinkFails = {}
    /\ rotation = None
    /\ run = IdleRun
    /\ effects = {}
    /\ schemaOut = {}
    /\ lastSaved = None
    /\ lastLoaded = None
    /\ cfgOps = 0
    /\ UnitIdle

Next ==
    \/ Main_Init
    \/ MenuShow
    \/ Choose_Exit
    \/ Choose_Configure
    \/ Choose_Run
    \/ StepBegin
    \/ StepEnd
    \/ StepEnd_AI
    \/ Tick
    \/ ExternalEnvEdit
    \/ ExternalDirChange

Spec == Init /\ [][Next]_vars

(***************************************************************************)
(* Specification of the update runner: sessions that only run the update,  *)
(* in every world of RunWorlds, with a configuration that names an         *)
(* eligible sub-theme or a directory that is no sub-theme.                 *)
(***************************************************************************)
\* While the menu waits, whatever made a step fail is put right by hand.
ExternalRepair ==
    /\ cliPc = "prompt"
    /\ externals < MaxExternal
    /\ world # OkWorld
    /\ world' = OkWorld
    /\ externals' = externals + 1
    /\ UNCHANGED <<cliPc, configStatus, choices, actions, cfgVars, logVars,
                   clock, ioVars, run, effects, schemaOut, storeVars, unitVars>>

InitRun ==
    /\ cliPc = "boot"
    /\ configStatus = [valid |-> FALSE, message |-> <<>>]
    /\ choices = {}
    /\ actions = 0
    /\ externals = 0
    /\ envFile \in {EnvFile(<<"d1">>, <<"k1">>, <<"m1">>), EnvFile(<<"d2">>, <<"k1">>, <<>>)}
    /\ processEnv = NoEnv
    /\ fsDirs = [d \in DirNames |-> IF d = <<"d1">> THEN EligibleDir ELSE NoComponentsDir]
    /\ currentLogFile = None
    /\ logDir = PreDir(0, "asc", 0)
    /\ console = <<>>
    /\ clock = ClockStart
    /\ logWritable = TRUE
    /\ statFails = {}
    /\ unlinkFails = {}
    /\ rotation = None
    /\ run = IdleRun
    /\ effects = {}
    /\ schemaOut \in {{}, {"c1"}}
    /\ world \in RunWorlds
    /\ lastSaved = None
    /\ lastLoaded = None
    /\ cfgOps = 0
    /\ UnitIdle

NextRun ==
    \/ Main_Init
    \/ MenuShow
    \/ Choose_Exit
    \/ Choose_Run
    \/ StepBegin
    \/ StepEnd
    \/ StepEnd_AI
    \/ ExternalRepair

SpecRun == InitRun /\ [][NextRun]_vars

(***************************************************************************)
(* Specification of the log rotation: initLogger on every .logs directory  *)
(* of up to MaxPre session files, with and without failing stat / unlink.  *)
(***************************************************************************)
PreName(i) == FileName("sdc-update-", 0 - i, ".log")

\* Files on which a system call may fail: none, the first or the last of
\* the listing, or (for unlink) every file.
FailingSets(n) ==
    {{}} \cup (IF n > 0 THEN {{PreName(1)}, {PreName(n)}} ELSE {})

InitRotate ==
    /\ cliPc = "boot"
    /\ configStatus = [valid |-> FALSE, message |-> <<>>]
    /\ choices = {}
    /\ actions = 0
    /\ externals = 0
    /\ envFile = None
    /\ processEnv = NoEnv
    /\ fsDirs = [d \in DirNames |-> EligibleDir]
    /\ currentLogFile = None
    /\ \E n \in 0..MaxPre, layout \in Layouts, others \in 0..1 :
        /\ logDir = PreDir(n, layout, others)
        /\ statFails \in FailingSets(n)
        /\ unlinkFails \in FailingSets(n) \cup {{PreName(i) : i \in 1..n}}
    /\ console = <<>>
    /\ clock = ClockStart
    /\ logWritable \in BOOLEAN
    /\ rotation = None
    /\ run = IdleRun
    /\ effects = {}
    /\ schemaOut = {}
    /\ world = OkWorld
    /\ lastSaved = None
    /\ lastLoaded = None
    /\ cfgOps = 0
    /\ UnitIdle

NextRotate ==
    \/ Tick
    \/ Main_Init

SpecRotate == InitRotate /\ [][NextRotate]_vars

(***************************************************************************)
(* Specification of the configuration store: any sequence of saveConfig,   *)
(* loadConfig and removals of .env within one process that was started    *)
(* with none of the three variables in its environment.                    *)
(***************************************************************************)
ConfigInputs ==
    [subthemeDirectory : {<<>>, <<"d1">>, <<"d2">>, <<"d1", " ">>},
     anthropicApiKey   : {<<>>, <<"k1">>, <<"k2">>},
     anthropicModel    : {<<>>, <<"m1">>}]

Store_Save ==
    /\ cfgOps < MaxCfgOps
    /\ \E config \in ConfigInputs :
        /\ envFile' = saveConfig(config)
        /\ lastSaved' = Some(config)
    /\ lastLoaded' = None
    /\ cfgOps' = cfgOps + 1
    /\ UNCHANGED <<cliVars, processEnv, fsDirs, logVars, clock, ioVars, runVars, unitVars>>

Store_Load ==
    /\ cfgOps < MaxCfgOps
    /\ LET loaded == loadConfig(envFile, processEnv)
       IN /\ processEnv' = loaded.env
          /\ lastLoaded' = Some(loaded.config)
    /\ cfgOps' = cfgOps + 1
    /\ UNCHANGED <<cliVars, envFile, fsDirs, logVars, clock, ioVars, runVars, lastSaved,
                   unitVars>>

Store_Remove ==
    /\ cfgOps < MaxCfgOps
    /\ envFile # None
    /\ envFile' = None
    /\ lastSaved' = None
    /\ lastLoaded' = None
    /\ cfgOps' = cfgOps + 1
    /\ UNCHANGED <<cliVars, processEnv, fsDirs, logVars, clock, ioVars, runVars, unitVars>>

\* validateConfig() called directly.
Store_Validate ==
    /\ cfgOps < MaxCfgOps
    /\ LET status == validateConfig(envFile, processEnv, fsDirs)
       IN /\ configStatus' = [valid |-> status.valid, message |-> status.message]
          /\ processEnv' = status.env
    /\ cfgOps' = cfgOps + 1
    /\ lastCall' = Call("validateConfig", cfgOps', <<>>)
    /\ UNCHANGED <<cliPc, choices, actions, externals, envFile, fsDirs, logVars, clock,
                   ioVars, runVars, lastSaved, lastLoaded, unitOps, schemaRun, script>>

\* The directories on disk in the configuration-store specification: d1 is
\* there, d2 is not.
StoreDirs == [d \in DirNames |-> IF d = <<"d1">> THEN EligibleDir ELSE MissingDir]

InitConfig ==
    /\ cliPc = "boot"
    /\ configStatus = [valid |-> FALSE, message |-> <<>>]
    /\ choices = {}
    /\ actions = 0
    /\ externals = 0
    /\ envFile \in {None, EnvFile(<<"d1">>, <<"k1">>, <<"m1">>)}
    /\ processEnv = NoEnv
    /\ fsDirs = StoreDirs
    /\ currentLogFile = None
    /\ logDir = PreDir(0, "asc", 0)
    /\ console = <<>>
    /\ clock = ClockStart
    /\ logWritable = TRUE
    /\ statFails = {}
    /\ unlinkFails = {}
    /\ rotation = None
    /\ run = IdleRun
    /\ effects = {}
    /\ schemaOut = {}
    /\ world = OkWorld
    /\ lastSaved = None
    /\ lastLoaded = None
    /\ cfgOps = 0
    /\ UnitIdle

NextConfig ==
    \/ Store_Save
    \/ Store_Load
    \/ Store_Remove
    \/ Store_Validate

SpecConfig == InitConfig /\ [][NextConfig]_vars

(***************************************************************************)
(* Specification of the logger: initLogger and log called directly, with   *)
(* every level and both values of consoleOnly, before and after the        *)
(* session file is set, on a .logs directory that can or cannot be         *)
(* written.                                                                *)
(***************************************************************************)
\* A level that is none of LOG_LEVELS: getLogLevelInfo's default case.
UnknownLevel == 5

LogLevelInputs == {LOG_LEVELS[k] : k \in DOMAIN LOG_LEVELS} \cup {UnknownLevel}

Log_Init ==
    /\ unitOps < MaxUnitOps
    /\ LET init == initLogger(Logger, clock, logWritable, statFails, unlinkFails)
       IN /\ SetLogger(init.logger)
          /\ rotation' = Some(init.rotation)
    /\ unitOps' = unitOps + 1
    /\ lastCall' = Call("initLogger", unitOps', <<>>)
    /\ UNCHANGED <<cliVars, cfgVars, clock, ioVars, runVars, storeVars, schemaRun, script>>

Log_Call ==
    /\ unitOps < MaxUnitOps
    /\ \E level \in LogLevelInputs, consoleOnly \in BOOLEAN :
        /\ SetLogger(log(Logger, level, <<"message">>, consoleOnly, clock, logWritable))
        /\ lastCall' = Call("log", unitOps + 1,
                            [level |-> level, message |-> <<"message">>,
                             consoleOnly |-> consoleOnly])
    /\ unitOps' = unitOps + 1
    /\ UNCHANGED <<cliVars, cfgVars, rotation, clock, ioVars, runVars, storeVars, schemaRun, script>>

\* .logs stops or starts being writable (permissions, a full disk).
Log_Fault ==
    /\ externals < MaxExternal
    /\ logWritable' = ~logWritable
    /\ externals' = externals + 1
    /\ UNCHANGED <<cliPc, configStatus, choices, actions, cfgVars, logVars, clock,
                   statFails, unlinkFails, runVars, storeVars, unitVars>>

InitLog ==
    /\ cliPc = "boot"
    /\ configStatus = [valid |-> FALSE, message |-> <<>>]
    /\ choices = {}
    /\ actions = 0
    /\ externals = 0
    /\ envFile = None
    /\ processEnv = NoEnv
    /\ fsDirs = [d \in DirNames |-> EligibleDir]
    /\ currentLogFile = None
    /\ logDir = PreDir(1, "asc", 0)
    /\ console = <<>>
    /\ clock = ClockStart
    /\ logWritable \in BOOLEAN
    /\ statFails = {}
    /\ unlinkFails = {}
    /\ rotation = None
    /\ run = IdleRun
    /\ effects = {}
    /\ schemaOut = {}
    /\ world = OkWorld
    /\ lastSaved = None
    /\ lastLoaded = None
    /\ cfgOps = 0
    /\ UnitIdle

NextLog ==
    \/ Log_Init
    \/ Log_Call
    \/ Log_Fault

SpecLog == InitLog /\ [][NextLog]_vars

(***************************************************************************)
(* Specification of the sub-theme validator: validateSubThemeDirectory     *)
(* called directly on directories in every state the validator tells       *)
(* apart, on the working directory of the process (which holds .logs), on  *)
(* a path that does not exist and on a value that is not a string, with    *)
(* the logger initialised or not.                                          *)
(***************************************************************************)
\* The working directory of the process: LOG_DIR is relative to it.
Cwd == <<".">>

ValidatePaths == DirNames \cup {Cwd}

PathInputs == ValidatePaths \cup {<<"nowhere">>, NoPath}

\* The directory a path names.
DirAt(fs, dirPath) == IF dirPath \in DOMAIN fs THEN fs[dirPath] ELSE MissingDir

\* Everything below dirPath: the directory as the validator sees it and,
\* for the working directory, the files of .logs.
Contents(fs, logs, dirPath) ==
    [dir |-> DirAt(fs, dirPath), logs |-> IF dirPath = Cwd THEN logs ELSE <<>>]

Validate_Call ==
    /\ unitOps < MaxUnitOps
    /\ \E dirPath \in PathInputs :
        LET calls == IF dirPath = NoPath THEN <<>>
                     ELSE validatorFsCalls(DirAt(fsDirs, dirPath))
        IN /\ fsDirs' = [p \in DOMAIN fsDirs |->
                            IF p = dirPath THEN fsCalls(fsDirs[p], calls) ELSE fsDirs[p]]
           /\ SetLogger(logAll(Logger, validatorEntriesAt(fsDirs, dirPath),
                               clock, logWritable))
           /\ lastCall' = Call("validateSubThemeDirectory", unitOps + 1,
                               [dirPath |-> dirPath,
                                result  |-> validateSubThemeDirectoryAt(fsDirs, dirPath),
                                calls   |-> calls])
    /\ unitOps' = unitOps + 1
    /\ UNCHANGED <<cliVars, envFile, processEnv, rotation, clock, ioVars, runVars,
                   storeVars, schemaRun, script>>

\* Somebody else changes a directory between two calls.
Validate_DirChange ==
    /\ externals < MaxExternal
    /\ \E d \in {EligibleDir, ComponentsOnlyDir, UnreadableYmlDir} :
        /\ fsDirs[<<"d2">>] # d
        /\ fsDirs' = [fsDirs EXCEPT ![<<"d2">>] = d]
    /\ externals' = externals + 1
    /\ UNCHANGED <<cliPc, configStatus, choices, actions, envFile, processEnv, logVars,
                   clock, ioVars, runVars, storeVars, unitVars>>

InitValidate ==
    /\ cliPc = "boot"
    /\ configStatus = [valid |-> FALSE, message |-> <<>>]
    /\ choices = {}
    /\ actions = 0
    /\ externals = 0
    /\ envFile = None
    /\ processEnv = NoEnv
    /\ \E d \in DirStates :
         fsDirs = [p \in ValidatePaths |->
                      IF p = <<"d1">> THEN d
                      ELSE IF p = <<"d2">> THEN MissingDir ELSE PlainDir]
    /\ currentLogFile = None
    /\ logDir = PreDir(0, "asc", 0)
    /\ console = <<>>
    /\ clock = ClockStart
    /\ logWritable = TRUE
    /\ statFails = {}
    /\ unlinkFails = {}
    /\ rotation = None
    /\ run = IdleRun
    /\ effects = {}
    /\ schemaOut = {}
    /\ world = OkWorld
    /\ lastSaved = None
    /\ lastLoaded = None
    /\ cfgOps = 0
    /\ UnitIdle

NextValidate ==
    \/ Validate_Call
    \/ Validate_DirChange
    \/ Log_Init

SpecValidate == InitValidate /\ [][NextValidate]_vars

(***************************************************************************)
(* Specification of the schema generation script, call by call: the loop   *)
(* of process() over the component files, the throttle in front of         *)
(* analyze and the replies of the AI service.  The throttle is p-throttle, *)
(* which the repository only configures: here it may let any waiting call  *)
(* through at any time.                                                    *)
(***************************************************************************)
ComponentFile(i) == [twig |-> i]

TwigFiles == [i \in 1..MaxFiles |-> ComponentFile(i)]

\* What messages.create can come to: one or more content blocks, none, or
\* a rejection.
ServiceReplies ==
    {Reply(<<SchemaText>>), Reply(<<SchemaText, ProseText>>), Reply(<<ProseText, SchemaText>>),
     Reply(<<>>), Failure(<<"overloaded_error">>), Failure(<<"Connection error.">>)}

\* main() calls report() right after its call of process().
Llm_Report ==
    /\ schemaRun.pc = "main"
    /\ schemaRun' = report(schemaRun)
    /\ UNCHANGED <<cliVars, cfgVars, logVars, clock, ioVars, runVars, storeVars,
                   lastCall, unitOps, script>>

\* The head of the for loop of process().
Llm_Next ==
    /\ schemaRun.pc = "loop"
    /\ schemaRun' = nextFile(schemaRun)
    /\ UNCHANGED <<cliVars, cfgVars, logVars, clock, ioVars, runVars, storeVars,
                   lastCall, unitOps, script>>

\* The throttle starts the body of analyze for a call that waits.
Llm_Dispatch ==
    /\ \E c \in schemaRun.queue : schemaRun' = dispatch(schemaRun, c)
    /\ UNCHANGED <<cliVars, cfgVars, logVars, clock, ioVars, runVars, storeVars,
                   lastCall, unitOps, script>>

\* messages.create settles, analyze returns or throws, the loop body ends.
Llm_Respond ==
    /\ \E c \in schemaRun.inflight, reply \in ServiceReplies :
           schemaRun' = settle(schemaRun, c, reply)
    /\ UNCHANGED <<cliVars, cfgVars, logVars, clock, ioVars, runVars, storeVars,
                   lastCall, unitOps, script>>

\* The script is run again over what the last run left in schema/.
Llm_Rerun ==
    /\ schemaRun.pc = "done"
    /\ actions < MaxActions
    /\ schemaRun' = main(TwigFiles, schemaRun.outputs)
    /\ actions' = actions + 1
    /\ UNCHANGED <<cliPc, configStatus, choices, externals, cfgVars, logVars, clock,
                   ioVars, runVars, storeVars, lastCall, unitOps, script>>

InitLlm ==
    /\ cliPc = "boot"
    /\ configStatus = [valid |-> FALSE, message |-> <<>>]
    /\ choices = {}
    /\ actions = 0
    /\ externals = 0
    /\ envFile = None
    /\ processEnv = NoEnv
    /\ fsDirs = [d \in DirNames |-> EligibleDir]
    /\ currentLogFile = None
    /\ logDir = PreDir(0, "asc", 0)
    /\ console = <<>>
    /\ clock = ClockStart
    /\ logWritable = TRUE
    /\ statFails = {}
    /\ unlinkFails = {}
    /\ rotation = None
    /\ run = IdleRun
    /\ effects = {}
    /\ schemaOut = {}
    /\ world = OkWorld
    /\ lastSaved = None
    /\ lastLoaded = None
    /\ cfgOps = 0
    /\ lastCall = None
    /\ unitOps = 0
    /\ script = NoScript
    /\ \E done \in SUBSET Range(TwigFiles) : schemaRun = main(TwigFiles, done)

NextLlm ==
    \/ Llm_Report
    \/ Llm_Next
    \/ Llm_Dispatch
    \/ Llm_Respond
    \/ Llm_Rerun

SpecLlm == InitLlm /\ [][NextLlm]_vars

(***************************************************************************)
(* The other scripts, each started on its own; nothing else moves.         *)
(***************************************************************************)
AtRest ==
    /\ cliPc = "boot"
    /\ configStatus = [valid |-> FALSE, message |-> <<>>]
    /\ choices = {}
    /\ actions = 0
    /\ externals = 0
    /\ envFile = None
    /\ processEnv = NoEnv
    /\ fsDirs = [d \in DirNames |-> EligibleDir]
    /\ currentLogFile = None
    /\ logDir = PreDir(0, "asc", 0)
    /\ console = <<>>
    /\ clock = ClockStart
    /\ logWritable = TRUE
    /\ statFails = {}
    /\ unlinkFails = {}
    /\ rotation = None
    /\ run = IdleRun
    /\ effects = {}
    /\ schemaOut = {}
    /\ world = OkWorld
    /\ lastSaved = None
    /\ lastLoaded = None
    /\ cfgOps = 0
    /\ lastCall = None
    /\ unitOps = 0
    /\ schemaRun = IdleLlm

(***************************************************************************)
(* Specification of update-build-and-storybook.sh.  A path is the sequence *)
(* of its segments below the sub-theme; a tree maps the paths of the files *)
(* to where their content comes from.                                      *)
(***************************************************************************)
NoTree == [p \in {} |-> "theme"]

TreeOf(paths, content) == [p \in paths |-> content]

\* The names step 3 removes, with components among them.
OldFiles_withComponents ==
    {".storybook", "webpack", "dist", ".components-civictheme", "components_combined",
     "patches", "gulpfile.js", "package-lock.json", "package.json", ".nvmrc", "components"}

\* The names step 3 removes.
OldFiles ==
    {".storybook", "webpack", "dist", ".components-civictheme", "components_combined",
     "patches", "gulpfile.js", "package-lock.json", "package.json", ".nvmrc"}

\* The names step 4 copies from the starter kit.
NewFiles ==
    {".storybook", "package.json", "package-lock.json", "build.js", "vite.config.js", ".nvmrc"}

\* The whole script: the run of w.subthemeDirectory against the files
\* w.tree at w.location, with the clone, the starter kit and rm as w has
\* them.  rm -rf of a name takes every path below it; rsync and cp put the
\* starter kit's paths below a name over the sub-theme's.
updateBuildAndStorybook(w) ==
    LET dir == w.subthemeDirectory
        inClone == dir # <<>> /\ dir[1] = "monorepo-drupal"
        pulled == IF inClone THEN NoTree ELSE w.tree
        removed == [p \in {q \in DOMAIN pulled : q[1] \notin (OldFiles \ w.rmFails)}
                       |-> pulled[p]]
        fromKit == {q \in DOMAIN w.kit : q[1] \in NewFiles}
        added == [p \in DOMAIN removed \cup fromKit
                     |-> IF p \in fromKit THEN w.kit[p] ELSE removed[p]]
    IN  IF dir = <<>> \/ dir # w.location
        THEN [exit |-> 1, tree |-> w.tree, step |-> 1]
        ELSE IF ~w.cloneOk
        THEN [exit |-> 1, tree |-> pulled, step |-> 2]
        ELSE [exit |-> 0, tree |-> IF inClone THEN NoTree ELSE added, step |-> 6]

BuildScript == "update-build-and-storybook.sh"

ThemePath == <<"web", "themes", "custom", "subtheme">>

NestedPath == <<"monorepo-drupal", "web", "themes", "custom", "subtheme">>

MissingPath == <<"web", "themes", "custom", "nowhere">>

\* What a sub-theme keeps of its own, and the old build files it may have.
OwnPaths ==
    {<<"subtheme.info.yml">>, <<"components", "button", "button.twig">>,
     <<"components", "button", "button.stories.js">>, <<"templates", "page.html.twig">>}

OldBuilds ==
    {{}, {<<"package.json">>, <<".storybook", "main.js">>},
     {<<"package.json">>, <<"package-lock.json">>, <<".nvmrc">>, <<"gulpfile.js">>,
      <<".storybook", "main.js">>, <<".storybook", "preview.js">>,
      <<"webpack", "webpack.dev.js">>, <<"dist", "styles.css">>,
      <<"patches", "fix.patch">>}}

\* The starter kit of the clone: complete, or as upstream may have changed it.
KitPaths ==
    {<<".storybook", "main.js">>, <<"package.json">>, <<"package-lock.json">>,
     <<"build.js">>, <<"vite.config.js">>, <<".nvmrc">>,
     <<"components", "button", "button.twig">>, <<"README.md">>}

StarterKits ==
    {TreeOf(KitPaths \ gone, "kit") : gone \in SUBSET {<<"build.js">>, <<".nvmrc">>}}

BuildWorlds ==
    {[subthemeDirectory |-> dir, location |-> loc, tree |-> TreeOf(OwnPaths \cup old, "theme"),
      cloneOk |-> ok, kit |-> kit, rmFails |-> fails] :
        dir \in {<<>>, MissingPath, ThemePath, NestedPath},
        loc \in {ThemePath, NestedPath},
        old \in OldBuilds, ok \in BOOLEAN, kit \in StarterKits,
        fails \in SUBSET {"webpack", "dist"}}

\* The script runs from its first line to its exit.
Build_Run ==
    /\ script.name = BuildScript
    /\ script.pc = "ready"
    /\ LET r == updateBuildAndStorybook(script.env)
       IN script' = [script EXCEPT !.pc = "exited", !.tree = r.tree, !.exit = r.exit,
                                   !.step = r.step]
    /\ UNCHANGED <<cliVars, cfgVars, logVars, clock, ioVars, runVars, storeVars,
                   lastCall, unitOps, schemaRun>>

InitBuild ==
    /\ AtRest
    /\ \E w \in BuildWorlds :
         /\ w.subthemeDirectory \in {<<>>, MissingPath, w.location}
         /\ script = [name |-> BuildScript, pc |-> "ready", env |-> w, tree |-> w.tree,
                      exit |-> 0, step |-> 0]

NextBuild ==
    \/ Build_Run

SpecBuild == InitBuild /\ [][NextBuild]_vars

(***************************************************************************)
(* Specification of runScript, applied on its own to one script path that  *)
(* is or is not on disk, whatever its extension.                           *)
(***************************************************************************)
\* Paths with the two supported endings and with endings close to them.
ScriptInputs ==
    {Script("./scripts/tool.sh", ".sh"), Script("./scripts/tool.mjs", ".mjs"),
     Script("./scripts/tool.js", ".js"), Script("./scripts/tool.mjs.bak", ".bak"),
     Script("./scripts/tool.SH", ".SH"), Script("./scripts/tool", "")}

ScriptEnvs ==
    {[SUBTHEME_DIRECTORY |-> <<"d1">>], [SUBTHEME_DIRECTORY |-> <<"d2">>]}

ScriptCall(s, exists, env, o) ==
    [name |-> "runScript", pc |-> "called", script |-> s, exists |-> exists, env |-> env,
     outcome |-> o, children |-> <<>>, error |-> <<>>]

\* runScript up to the start of the child process, or to the throw.
RunScript_Begin ==
    /\ script.name = "runScript"
    /\ script.pc = "called"
    /\ LET s   == script.script
           pre == runScript(s, script.exists)
           L1  == logAll(Logger, <<Info(<<"Executing script:", s.path>>)>>, clock, logWritable)
       IN IF pre.spawn
          THEN /\ script' = [script EXCEPT
                               !.pc = "child",
                               !.children = Append(@, [command |-> pre.command,
                                                       args    |-> <<s.path>>,
                                                       env     |-> mergeEnv(processEnv,
                                                                            script.env)])]
               /\ SetLogger(logAll(L1, <<Debug(<<"Script exists:", s.path>>),
                                         Debug(<<"Running as", pre.command>>),
                                         Debug(<<"Script environment prepared">>)>>,
                                   clock, logWritable))
          ELSE /\ script' = [script EXCEPT !.pc = "thrown", !.error = pre.message]
               /\ SetLogger(logAll(L1, <<Error(pre.message)>>, clock, logWritable))
    /\ UNCHANGED <<cliVars, cfgVars, rotation, clock, ioVars, runVars, storeVars,
                   lastCall, unitOps, schemaRun>>

\* The child process ends: runScript returns its output or rethrows.
RunScript_End ==
    /\ script.name = "runScript"
    /\ script.pc = "child"
    /\ LET o     == script.outcome
           child == script.children[Len(script.children)]
           message == execFailure(child.command, script.script, o.stdout, o.stderr)
       IN IF o.exit = 0
          THEN /\ script' = [script EXCEPT !.pc = "returned"]
               /\ SetLogger(logAll(Logger, <<Info(<<"Script execution completed">>)>>,
                                   clock, logWritable))
          ELSE /\ script' = [script EXCEPT !.pc = "thrown", !.error = message]
               /\ SetLogger(logAll(Logger,
                                   IF o.stdout # <<>> \/ o.stderr # <<>>
                                   THEN <<Error(message), Debug(<<"Script stdout:">>),
                                          Debug(<<"Script stderr:">>)>>
                                   ELSE <<>>,
                                   clock, logWritable))
    /\ UNCHANGED <<cliVars, cfgVars, rotation, clock, ioVars, runVars, storeVars,
                   lastCall, unitOps, schemaRun>>

InitScript ==
    /\ AtRest
    /\ \E s \in ScriptInputs, exists \in BOOLEAN, env \in ScriptEnvs,
          o \in {Quiet, Warned, SilentFailure, LoudFailure} :
         script = ScriptCall(s, exists, env, o)

NextScript ==
    \/ RunScript_Begin
    \/ RunScript_End

SpecScript == InitScript /\ [][NextScript]_vars

(***************************************************************************)
(* Specification of step2-update-twig.mjs.  A Twig text is the sequence of *)
(* its pieces: a reference '@group/dir/name.twig', a name 'ns:name', the   *)
(* opening of a block tag with its name (the parts joined by '_'), or      *)
(* other text.                                                             *)
(***************************************************************************)
Piece(kind, head, name) == [kind |-> kind, head |-> head, name |-> name]

Ref(group, dir, name) == Piece("ref", <<group, dir>>, <<name>>)

Block(open, name) == Piece("block", <<open>>, name)

Other(text) == Piece("text", <<>>, <<text>>)

\* /@(base|atoms|molecules|organisms)\/([^/]+)\/([^/]+)\.twig/gi: every
\* match becomes namespace ':' name, the namespace from the map or
\* 'civictheme'.
updateTwigNamespacing(text, namespaceMap) ==
    [i \in DOMAIN text |->
        LET p == text[i]
        IN IF p.kind = "ref" /\ p.head[1] \in {"base", "atoms", "molecules", "organisms"}
           THEN Piece("ns",
                      <<IF p.name[1] \in DOMAIN namespaceMap
                        THEN namespaceMap[p.name[1]] ELSE "civictheme">>,
                      p.name)
           ELSE p]

\* /\{%\s{1,2}block [a-zA-Z0-9_-]+/g: every match gets '_block' appended,
\* whatever the name ends in.
updateBlockNames(text) ==
    [i \in DOMAIN text |->
        LET p == text[i]
        IN IF p.kind = "block" /\ p.head[1] \in {"{% ", "{%  "}
           THEN Piece("block", p.head, Append(p.name, "block"))
           ELSE p]

\* update(): the three merges from the starter kit, which throw when the
\* clone is not there, then the two rewritings of every Twig file below
\* components/ and templates/.
update(s) ==
    IF ~s.kit
    THEN [s EXCEPT !.exit = 1, !.runs = @ + 1]
    ELSE [s EXCEPT !.exit = 0, !.runs = @ + 1,
                   !.info = "kit", !.libraries = "kit", !.package = "kit",
                   !.twig = [f \in DOMAIN s.twig |->
                                IF f[1] \in {"components", "templates"}
                                THEN updateBlockNames(
                                         updateTwigNamespacing(s.twig[f], s.namespaceMap))
                                ELSE s.twig[f]]]

TwigScript == "step2-update-twig.mjs"

TwigTexts ==
    {<<Block("{% ", <<"content">>), Other("{% include"), Ref("atoms", "button", "button"),
       Other("%}{% endblock %}")>>,
     <<Other("{% extends"), Ref("molecules", "card", "card"), Other("%}"),
       Block("{%  ", <<"side", "bar">>), Block("{%- ", <<"footer">>)>>,
     <<Other("{% include"), Ref("civictheme", "tag", "tag"), Other("%}")>>,
     <<Other("<div></div>")>>}

TwigPaths ==
    {<<"components", "card", "card.twig">>, <<"templates", "page.html.twig">>,
     <<"includes", "legacy.twig">>}

NamespaceMaps ==
    {[n \in {"button"} |-> "civictheme"], [n \in {"button", "card"} |-> "subtheme"]}

TwigStarts ==
    {[name |-> TwigScript, kit |-> kit, namespaceMap |-> map, info |-> "theme",
      libraries |-> "theme", package |-> "theme", exit |-> 0, runs |-> 0,
      twig |-> [f \in TwigPaths |-> IF f[1] = "components" THEN c
                                    ELSE IF f[1] = "templates" THEN t ELSE c]] :
        kit \in BOOLEAN, map \in NamespaceMaps, c \in TwigTexts, t \in TwigTexts}

\* Step 2 runs, for the first time or again.
Twig_Update ==
    /\ script.name = TwigScript
    /\ script.runs < MaxActions
    /\ script' = update(script)
    /\ UNCHANGED <<cliVars, cfgVars, logVars, clock, ioVars, runVars, storeVars,
                   lastCall, unitOps, schemaRun>>

\* Between two runs the clone is fetched again, or removed.
Twig_Clone ==
    /\ script.name = TwigScript
    /\ externals < MaxExternal
    /\ script' = [script EXCEPT !.kit = ~@]
    /\ externals' = externals + 1
    /\ UNCHANGED <<cliPc, configStatus, choices, actions, cfgVars, logVars, clock, ioVars,
                   runVars, storeVars, lastCall, unitOps, schemaRun>>

InitTwig ==
    /\ AtRest
    /\ script \in TwigStarts

NextTwig ==
    \/ Twig_Update
    \/ Twig_Clone

SpecTwig == InitTwig /\ [][NextTwig]_vars

(***************************************************************************)
(* Specification of the Storybook v8 CLI (update-storybook.mjs): the       *)
(* environment read from .env once at startup, and one pass of the menu    *)
(* loop per action.                                                        *)
(***************************************************************************)
V8Cli == "update-storybook.mjs"

\* hasValidSubThemeDirectory(): process.env.SUBTHEME_DIRECTORY is set, the
\* directory can be accessed, and validateSubThemeDirectory finds it valid
\* (src/validateSubTheme.js makes the same five tests as the validator of
\* the SDC tool).
hasValidSubThemeDirectory(env, fs) ==
    /\ env.SUBTHEME_DIRECTORY # <<>>
    /\ Accessible(fs, env.SUBTHEME_DIRECTORY)
    /\ validateSubThemeDirectory(fs[env.SUBTHEME_DIRECTORY]).valid

\* hasApiKey()
hasApiKey(env) == env.ANTHROPIC_API_KEY # <<>>

\* configureApplication() once both prompts have accepted their answers:
\* the two lines are written to .env, or the failure to write is logged.
\* process.env is not touched.
configureApplication(s, in) ==
    [s EXCEPT !.file = IF in.saved
                       THEN Some([SUBTHEME_DIRECTORY |-> in.dir, ANTHROPIC_API_KEY |-> in.key])
                       ELSE s.file]

NoPass ==
    [choice |-> "none", configured |-> FALSE, saved |-> FALSE, recheck |-> FALSE,
     started |-> "none", spawned |-> FALSE]

\* One pass of the while loop of mainMenu() with the choice made and the
\* answers given where they are asked for.
mainMenu(s, choice, in) ==
    LET dirOk  == hasValidSubThemeDirectory(s.env, s.fs)
        needsConfig == IF choice = "update_stories" THEN ~dirOk \/ ~hasApiKey(s.env)
                       ELSE ~dirOk
        s1     == IF needsConfig THEN configureApplication(s, in) ELSE s
        again  == IF choice = "update_stories"
                  THEN hasValidSubThemeDirectory(s1.env, s1.fs) /\ hasApiKey(s1.env)
                  ELSE hasValidSubThemeDirectory(s1.env, s1.fs)
        pass   == [NoPass EXCEPT !.choice = choice, !.configured = needsConfig,
                                 !.saved = needsConfig /\ in.saved,
                                 !.recheck = needsConfig /\ again]
    IN  IF choice = "exit"
        THEN [s EXCEPT !.pc = "exited", !.n = @ + 1, !.last = [NoPass EXCEPT !.choice = choice]]
        ELSE IF choice = "configure_application"
        THEN [configureApplication(s, in) EXCEPT
                 !.n = @ + 1,
                 !.last = [NoPass EXCEPT !.choice = choice, !.configured = TRUE,
                                         !.saved = in.saved]]
        ELSE IF needsConfig /\ ~again
        THEN [s1 EXCEPT !.n = @ + 1, !.last = pass]
        ELSE IF choice = "update_build_system"
        THEN [s1 EXCEPT !.n = @ + 1,
                        !.last = [pass EXCEPT !.started = choice, !.spawned = in.confirmed],
                        !.pc = IF in.confirmed /\ in.code # 0 THEN "crashed" ELSE "menu"]
        ELSE [s1 EXCEPT !.n = @ + 1,
                        !.last = [pass EXCEPT !.started = choice, !.spawned = TRUE]]

V8Choices == {"update_build_system", "update_stories", "configure_application", "exit"}

V8Files ==
    {None} \cup {Some([SUBTHEME_DIRECTORY |-> dir, ANTHROPIC_API_KEY |-> key]) :
                    dir \in {<<>>, <<"d1">>, <<"d2">>, <<"d3">>}, key \in {<<>>, <<"k1">>}}

\* dotenv.config() at startup, nothing of the two names being inherited.
V8Env(file) ==
    IF IsSome(file)
    THEN [SUBTHEME_DIRECTORY |-> dotenvParseValue(Get(file).SUBTHEME_DIRECTORY),
          ANTHROPIC_API_KEY  |-> dotenvParseValue(Get(file).ANTHROPIC_API_KEY)]
    ELSE [SUBTHEME_DIRECTORY |-> <<>>, ANTHROPIC_API_KEY |-> <<>>]

V8Dirs == [d \in DirNames |-> IF d = <<"d1">> THEN EligibleDir ELSE PlainDir]

\* The passes of the menu that need no answer are followed with one.
V8Answers(s, choice) ==
    LET asked == \/ choice = "configure_application"
                 \/ /\ choice \in {"update_build_system", "update_stories"}
                    /\ ~hasValidSubThemeDirectory(s.env, s.fs)
                 \/ choice = "update_stories" /\ ~hasApiKey(s.env)
    IN {[dir |-> dir, key |-> key, saved |-> saved, confirmed |-> confirmed, code |-> code] :
            dir \in {d \in DirNames : asked => directoryPromptAccepts(s.fs, d)},
            key \in {<<"k2">>}, saved \in BOOLEAN, confirmed \in BOOLEAN, code \in {0, 1}}

\* One pass of the menu loop.
Menu_Choose ==
    /\ script.name = V8Cli
    /\ script.pc = "menu"
    /\ script.n < MaxActions
    /\ \E choice \in V8Choices : \E in \in V8Answers(script, choice) :
           script' = mainMenu(script, choice, in)
    /\ UNCHANGED <<cliVars, cfgVars, logVars, clock, ioVars, runVars, storeVars,
                   lastCall, unitOps, schemaRun>>

\* While the menu waits, the directory d2 is made a sub-theme by hand.
Menu_DirChange ==
    /\ script.name = V8Cli
    /\ script.pc = "menu"
    /\ externals < MaxExternal
    /\ script' = [script EXCEPT !.fs[<<"d2">>] = IF @ = EligibleDir THEN PlainDir
                                                 ELSE EligibleDir]
    /\ externals' = externals + 1
    /\ UNCHANGED <<cliPc, configStatus, choices, actions, cfgVars, logVars, clock, ioVars,
                   runVars, storeVars, lastCall, unitOps, schemaRun>>

InitMenu ==
    /\ AtRest
    /\ \E file \in V8Files :
         script = [name |-> V8Cli, pc |-> "menu", env |-> V8Env(file), file |-> file,
                   fs |-> V8Dirs, n |-> 0, last |-> NoPass]

NextMenu ==
    \/ Menu_Choose
    \/ Menu_DirChange

SpecMenu == InitMenu /\ [][NextMenu]_vars

(***************************************************************************)
(* Specification of the story conversion (convert-subtheme-storybook.mjs), *)
(* request by request.                                                     *)
(***************************************************************************)
StoriesScript == "convert-subtheme-storybook.mjs"

StoryV6(i) == <<"v6 story", ToString(i)>>

StoryV8 == <<"v8 story">>

\* data.content && data.content[0] && data.content[0].text
ValidResponse(reply) == ~reply.error /\ reply.content # <<>> /\ reply.content[1] # <<>>

\* convertStories(): the story files found below components/, and the loop
\* of processStoriesFiles at its head, or the return when there is none.
convertStories(found) ==
    [name |-> StoriesScript, pc |-> IF found = <<>> THEN "done" ELSE "loop",
     todo |-> found, original |-> [i \in Range(found) |-> StoryV6(i)],
     files |-> [i \in Range(found) |-> StoryV6(i)],
     requests |-> <<>>, returned |-> <<>>, errors |-> <<>>]

\* The loop body of processStoriesFiles with every response written to the
\* file, valid or not.
processStoriesFiles_writesAny(s, reply, wrote) ==
    LET file == Head(s.todo)
    IN [s EXCEPT !.files[file] = IF reply.error \/ ~wrote THEN @
                                  ELSE IF reply.content = <<>> THEN <<"undefined">>
                                  ELSE reply.content[1],
                 !.returned = Append(@, [file |-> file, reply |-> reply, wrote |-> wrote]),
                 !.todo = Tail(@),
                 !.pc = IF Tail(s.todo) = <<>> THEN "done" ELSE "loop"]

\* The loop body of processStoriesFiles from the response on: the file is
\* written when the response is valid (wrote: writeFileSync did not throw),
\* an error is printed otherwise, and the loop goes to the next file.
processStoriesFiles(s, reply, wrote) ==
    LET file == Head(s.todo)
        good == ValidResponse(reply) /\ wrote
    IN [s EXCEPT !.files[file] = IF good THEN reply.content[1] ELSE @,
                 !.returned = Append(@, [file |-> file, reply |-> reply, wrote |-> wrote]),
                 !.errors = IF good THEN @ ELSE Append(@, file),
                 !.todo = Tail(@),
                 !.pc = IF Tail(s.todo) = <<>> THEN "done" ELSE "loop"]

StoryReplies ==
    {Reply(<<StoryV8>>), Reply(<<StoryV8, ProseText>>), Reply(<<>>), Reply(<< <<>>, StoryV8 >>),
     Failure(<<"fetch failed">>)}

\* The head of the loop: the file is read and the request is sent.
Stories_Request ==
    /\ script.name = StoriesScript
    /\ script.pc = "loop"
    /\ script' = [script EXCEPT
                     !.pc = "awaiting",
                     !.requests = Append(@, [file |-> Head(script.todo),
                                             content |-> script.files[Head(script.todo)]])]
    /\ UNCHANGED <<cliVars, cfgVars, logVars, clock, ioVars, runVars, storeVars,
                   lastCall, unitOps, schemaRun>>

\* fetch and response.json() settle; the rest of the loop body runs.
Stories_Respond ==
    /\ script.name = StoriesScript
    /\ script.pc = "awaiting"
    /\ \E reply \in StoryReplies, wrote \in BOOLEAN :
           /\ (~ValidResponse(reply) => wrote)
           /\ script' = processStoriesFiles(script, reply, wrote)
    /\ UNCHANGED <<cliVars, cfgVars, logVars, clock, ioVars, runVars, storeVars,
                   lastCall, unitOps, schemaRun>>

InitStories ==
    /\ AtRest
    /\ \E k \in 0..MaxFiles : script = convertStories([i \in 1..k |-> i])

NextStories ==
    \/ Stories_Request
    \/ Stories_Respond

SpecStories == InitStories /\ [][NextStories]_vars

(***************************************************************************)
(* Properties of the update runner.                                        *)
(***************************************************************************)
FailedSteps(r) == {i \in StepNumbers : r.status[i] = "Failed"}

\* C1: in a run of runUpdate the steps are started in their declared order,
\* one at a time, and step i+1 is started only after step i of the same run
\* has succeeded.
C1_StepsInOrder ==
    /\ run.started = [k \in 1..Len(run.started) |-> k]
    /\ \A i \in StepNumbers :
        (i > 1 /\ Contains(run.started, i)) => run.status[i - 1] = "Succeeded"
    /\ Cardinality({i \in StepNumbers : run.status[i] = "Running"}) <= 1
    /\ \A i \in StepNumbers : run.status[i] # "Pending" => Contains(run.started, i)

\* Step 3 is running after steps 1 and 2 succeeded, the others are pending.
C1_Witness ==
    /\ run.status[1] = "Succeeded"
    /\ run.status[2] = "Succeeded"
    /\ run.status[3] = "Running"
    /\ run.started = <<1, 2, 3>>

\* C2: when a step fails, runUpdate rejects with an error, no later step of
\* that run is started, then or afterwards, and the step that failed leaves
\* the effects of the completed steps as they were.
C2_AbortOnFailure ==
    [][ /\ \A i \in FailedSteps(run') :
            /\ run'.pc = "rejected"
            /\ run'.error # <<>>
            /\ cliPc' # "running"
            /\ \A j \in StepNumbers :
                j > i => run'.status[j] = "Pending" /\ ~Contains(run'.started, j)
        /\ FailedSteps(run') # FailedSteps(run) /\ FailedSteps(run') # {}
            => effects' = effects ]_vars

\* Step 3 failed after steps 1 and 2 had completed: their effects remain.
C2_Witness ==
    /\ run.pc = "rejected"
    /\ run.failedStep = 3
    /\ effects = {1, 2}
    /\ cliPc = "prompt"

\* C3 as claimed: the error of a run whose step k failed contains the name
\* of step k.
C3_ErrorNamesStep ==
    run.failedStep > 0 => Contains(run.error, UPDATE_STEPS[run.failedStep].name)

\* C3: the error of a run whose step k failed starts with 'Step k failed:',
\* k being the 1-based number of the step, and holds the path of its script.
C3_ErrorNumbersStep ==
    run.failedStep > 0 =>
        /\ run.pc = "rejected"
        /\ run.status[run.failedStep] = "Failed"
        /\ IsPrefix(<<"Step", ToString(run.failedStep), "failed:">>, run.error)
        /\ Contains(run.error, UPDATE_STEPS[run.failedStep].script.path)

\* Step 2 of 6 failed with a non-zero exit status.
C3_Witness ==
    /\ run.failedStep = 2
    /\ run.pc = "rejected"
    /\ Contains(run.error, "Command failed:")

ConfigWasValid(facts) ==
    facts.fileExists /\ facts.dirGiven /\ facts.dirOnDisk /\ facts.keyGiven

\* C4: a step is started only in a run at whose start .env existed, the
\* sub-theme directory was given and accessible on disk and the API key
\* was given; a run started otherwise is rejected with 'Invalid
\* configuration' and starts no step and no process.
C4_ValidBeforeSteps ==
    /\ run.started # <<>> => IsSome(run.facts) /\ ConfigWasValid(Get(run.facts))
    /\ (IsSome(run.facts) /\ ~ConfigWasValid(Get(run.facts))) =>
        /\ run.pc = "rejected"
        /\ IsPrefix(<<"Invalid configuration:">>, run.error)
        /\ run.started = <<>>
        /\ run.children = <<>>

\* A run was started after the configuration had become invalid behind the
\* menu, and was rejected.
C4_Witness ==
    /\ IsSome(run.facts)
    /\ ~ConfigWasValid(Get(run.facts))
    /\ run.pc = "rejected"
    /\ configStatus.valid

C6_ApiErrorFailsStep ==
    (IsSome(run.ai) /\ Get(run.ai).apiErrors > 0) =>
        /\ run.status[AI_STEP] = "Failed"
        /\ \A j \in StepNumbers : j > AI_STEP => ~Contains(run.started, j)

\* C6: an API error of analyze in step 4 is caught by process() and counted
\* among the failed files; the script ends with status 0, the runner
\* reports step 4 as succeeded and goes on to step 5.
C6_ApiErrorIsolated ==
    (IsSome(run.ai) /\ ~Get(run.ai).crashed /\ Get(run.ai).apiErrors > 0) =>
        /\ run.status[AI_STEP] = "Succeeded"
        /\ Get(run.ai).failed >= Get(run.ai).apiErrors
        /\ run.step > AI_STEP
        /\ run.failedStep # AI_STEP

\* The run completed all six steps although both LLM calls of step 4 failed.
C6_Witness ==
    /\ IsSome(run.ai)
    /\ Get(run.ai).apiErrors = Len(Components)
    /\ run.pc = "completed"
    /\ schemaOut = {}

(***************************************************************************)
(* Properties of the configuration store.                                  *)
(***************************************************************************)
\* A configuration as the wizard is meant to produce it: three values that
\* are not empty and have no surrounding white space.
CleanConfig(config) ==
    \A v \in {config.subthemeDirectory, config.anthropicApiKey, config.anthropicModel} :
        v # <<>> /\ dotenvParseValue(v) = v

\* C7 as claimed: the loadConfig that follows a saveConfig returns the three
\* values that were saved, with configExists = TRUE.
C7_RoundTrip ==
    (IsSome(lastSaved) /\ IsSome(lastLoaded) /\ CleanConfig(Get(lastSaved))) =>
        Get(lastLoaded) = [subthemeDirectory |-> Get(lastSaved).subthemeDirectory,
                           anthropicApiKey   |-> Get(lastSaved).anthropicApiKey,
                           anthropicModel    |-> Get(lastSaved).anthropicModel,
                           configExists      |-> TRUE]

(***************************************************************************)
(* Properties of the logger.                                               *)
(***************************************************************************)
SessionLogs(dir) == {i \in DOMAIN dir : IsSessionLog(dir[i].name)}

\* C8 as claimed: once initLogger has completed, .logs holds at most
\* MAX_LOG_FILES session log files, the new one included (no deletion
\* having failed).
C8_RotationCap ==
    (IsSome(rotation) /\ unlinkFails = {}) =>
        Cardinality(SessionLogs(logDir)) <= MAX_LOG_FILES

MtimeIn(dir, name) == dir[FileAt(dir, name)].mtime

\* The session log files rotateLogFiles found, and those among them that
\* are still there after it.
FoundLogs(rot) == {f.name : f \in {rot.before[i] : i \in SessionLogs(rot.before)}}

KeptLogs(rot) == FoundLogs(rot) \ rot.removed

SortedMtime(rot, name) ==
    LET i == CHOOSE j \in DOMAIN rot.sorted : rot.sorted[j].name = name
    IN rot.sorted[i].mtime

FileLines(dir, name) ==
    IF name \in Names(dir) THEN dir[FileAt(dir, name)].lines ELSE <<>>

\* C10 as claimed: after the first initLogger of a session the path of the
\* current log file never changes and what was written to the file stays,
\* new lines being added at its end.
C10_OneAppendOnlyLog ==
    [][ IsSome(currentLogFile) =>
            /\ currentLogFile' = currentLogFile
            /\ IsPrefix(FileLines(logDir, Get(currentLogFile)),
                        FileLines(logDir', Get(currentLogFile))) ]_vars

\* The call of log that a step has just made, if it made one.
LogCalled(before, after) ==
    after # before /\ IsSome(after) /\ Get(after).op = "log"

LogEntry(args) == [level |-> getLogLevelInfo(args.level), message |-> args.message]

\* The files of dir other than the one called name.
OtherFiles(dir, name) == SelectSeq(dir, LAMBDA f : f.name # name)

\* C11 as claimed: every call of log with consoleOnly = FALSE appends one
\* line to the session file, whatever the level; a call with consoleOnly =
\* TRUE leaves the files alone; the console receives the message.
C11_EveryCallPersisted ==
    [][ LogCalled(lastCall, lastCall') =>
            LET args == Get(lastCall').args
            IN /\ console' = Append(console, LogEntry(args))
               /\ args.consoleOnly => logDir' = logDir
               /\ ~args.consoleOnly =>
                    /\ IsSome(currentLogFile)
                    /\ FileLines(logDir', Get(currentLogFile))
                         = Append(FileLines(logDir, Get(currentLogFile)), LogEntry(args)) ]_vars

\* C11: a call of log with consoleOnly = FALSE, made once initLogger has set
\* the session file and while the file can be written, appends one line to
\* that file and touches no other, whatever the level; every other call
\* leaves the files as they are; the console receives the message of every
\* call.
C11_PersistedWhenFileSet ==
    [][ LogCalled(lastCall, lastCall') =>
            LET args == Get(lastCall').args
            IN /\ console' = Append(console, LogEntry(args))
               /\ currentLogFile' = currentLogFile
               /\ IF ~args.consoleOnly /\ IsSome(currentLogFile) /\ logWritable
                  THEN /\ FileLines(logDir', Get(currentLogFile))
                            = Append(FileLines(logDir, Get(currentLogFile)), LogEntry(args))
                       /\ OtherFiles(logDir', Get(currentLogFile))
                            = OtherFiles(logDir, Get(currentLogFile))
                  ELSE logDir' = logDir ]_vars

\* A DEBUG call and a call with a level that is none of LOG_LEVELS have
\* both reached the session file, the latter as the last line.
C11_Witness ==
    /\ IsSome(lastCall)
    /\ Get(lastCall).op = "log"
    /\ Get(lastCall).args.level = UnknownLevel
    /\ ~Get(lastCall).args.consoleOnly
    /\ IsSome(currentLogFile)
    /\ LET lines == FileLines(logDir, Get(currentLogFile))
       IN /\ lines # <<>>
          /\ lines[Len(lines)].level = "UNKNOWN"
          /\ \E i \in DOMAIN lines : lines[i].level = "DEBUG"

\* The entries a step adds to the console.
NewEntries(before, after) == SubSeq(after, Len(before) + 1, Len(after))

\* A step of a menu action in which an error was logged.
MenuActionFailed(pc, before, after) ==
    /\ pc \in {"prompt", "running"}
    /\ \E i \in DOMAIN NewEntries(before, after) :
           NewEntries(before, after)[i].level = "ERROR"

\* C12: an error thrown by a menu action (run update or configure
\* application) is logged and the menu is shown again; the process does not
\* exit because of it.
C12_ErrorsReturnToMenu ==
    [][ MenuActionFailed(cliPc, console, console') => cliPc' = "menu" ]_vars

\* C13: in every iteration of the menu loop 'run update' is offered if and
\* only if validateConfig returned valid = TRUE in that iteration,
\* 'configure' and 'exit' are always offered, and the loop ends only when
\* 'exit' is chosen.
C13_MenuLoop ==
    /\ cliPc = "prompt" =>
         /\ ("run_update" \in choices) = configStatus.valid
         /\ {"configure_application", "exit"} \subseteq choices
    /\ cliPc \notin {"boot", "menu", "prompt", "running"} =>
         /\ cliPc = "exited"
         /\ console[Len(console)].message = <<"User selected: Exit application">>

\* validateConfig has just been called.
ValidateConfigCalled(before, after) ==
    after # before /\ IsSome(after) /\ Get(after).op = "validateConfig"

\* C14: validateConfig returns {valid, message} and fails closed with its
\* own message for each of: settings file missing, directory value missing,
\* API key missing, directory not accessible on disk; the checks apply in
\* this order and valid = TRUE is returned only when none applies.  The
\* values are those loadConfig returns.  A missing settings file yields the
\* first message, never an exception.
C14_FailsClosedInOrder ==
    [][ ValidateConfigCalled(lastCall, lastCall') =>
            LET dir      == EnvOr(processEnv', "SUBTHEME_DIRECTORY", <<>>)
                key      == EnvOr(processEnv', "ANTHROPIC_API_KEY", <<>>)
                noFile   == envFile = None
                noDir    == dir = <<>>
                noKey    == key = <<>>
                noAccess == ~(dir \in DOMAIN fsDirs /\ fsDirs[dir].exists)
                message  == configStatus'.message
            IN /\ configStatus'.valid \in BOOLEAN
               /\ noFile => message = MsgNoFile
               /\ ~noFile /\ noDir => message = MsgNoDir
               /\ ~noFile /\ ~noDir /\ noKey => message = MsgNoKey
               /\ ~noFile /\ ~noDir /\ ~noKey /\ noAccess =>
                    IsPrefix(MsgNoAccess, message)
               /\ configStatus'.valid = (~noFile /\ ~noDir /\ ~noKey /\ ~noAccess)
               /\ configStatus'.valid = (message = MsgValid)
               /\ Cardinality({MsgNoFile, MsgNoDir, MsgNoKey, MsgNoAccess, MsgValid}) = 5 ]_vars

\* validateConfig has rejected a configuration that has an API key and a
\* directory value because the directory is not on disk.
C14_Witness ==
    /\ IsSome(lastCall)
    /\ Get(lastCall).op = "validateConfig"
    /\ IsSome(envFile)
    /\ EnvOr(processEnv, "ANTHROPIC_API_KEY", <<>>) # <<>>
    /\ EnvOr(processEnv, "SUBTHEME_DIRECTORY", <<>>) = <<"d2">>
    /\ ~configStatus.valid
    /\ IsPrefix(MsgNoAccess, configStatus.message)

\* validateSubThemeDirectory has just been called.
ValidatorCalled(before, after) ==
    after # before /\ IsSome(after) /\ Get(after).op = "validateSubThemeDirectory"

DetailKeys == {"hasInfoYml", "hasComponentsDir", "hasName", "isThemeType", "hasCivicThemeBase"}

\* C15: on a directory without <basename>.info.yml the validator returns
\* valid = FALSE with a message starting 'Could not find
\* <basename>.info.yml' and stops there: the only thing it asked of the
\* file system is whether the descriptor is there, the only thing it logged
\* after the opening line is that it is not, and every boolean of the
\* report is FALSE.
C15_HardStopWithoutInfoYml ==
    [][ ( /\ ValidatorCalled(lastCall, lastCall')
          /\ Get(lastCall').args.dirPath # NoPath
          /\ ~DirAt(fsDirs, Get(lastCall').args.dirPath).infoYml ) =>
            LET call == Get(lastCall').args
            IN /\ ~call.result.valid
               /\ IsPrefix(<<"Could not find", "<basename>.info.yml">>, call.result.message)
               /\ DOMAIN call.result.details = DetailKeys
               /\ \A k \in DetailKeys : ~call.result.details[k]
               /\ call.calls = <<FsCall("access", "<basename>.info.yml")>>
               /\ Len(NewEntries(console, console')) = 2
               /\ NewEntries(console, console')[2].level = "WARNING"
               /\ IsPrefix(<<"Could not find">>, NewEntries(console, console')[2].message) ]_vars

\* The validator has stopped at a directory that has a components
\* directory and no descriptor.
C15_Witness ==
    /\ IsSome(lastCall)
    /\ Get(lastCall).op = "validateSubThemeDirectory"
    /\ Get(lastCall).args.dirPath = <<"d1">>
    /\ fsDirs[<<"d1">>] = ComponentsOnlyDir
    /\ Get(lastCall).args.result.message = MsgNoInfoYml

\* The marks of the lines of a combined message, in order.
Marks(message) == SelectSeq(message, LAMBDA t : t \in {"[x]", "[ok]"})

MarkOf(passed) == IF passed THEN "[ok]" ELSE "[x]"

\* The four conditions after the descriptor, as they are on disk.
OnDisk(d) ==
    [hasName |-> d.ymlName, isThemeType |-> d.ymlType,
     hasCivicThemeBase |-> d.ymlBase, hasComponentsDir |-> d.components = "dir"]

\* The per-condition lines of the message of an invalid report.
LinesMatchDetails(result) ==
    /\ Marks(result.message) = <<MarkOf(result.details.hasName),
                                 MarkOf(result.details.isThemeType),
                                 MarkOf(result.details.hasCivicThemeBase),
                                 MarkOf(result.details.hasComponentsDir)>>
    /\ ~result.details.hasCivicThemeBase => Contains(result.message, "base theme: civictheme")
    /\ ~result.details.hasComponentsDir => Contains(result.message, "components directory")

C17_TargetUnchanged ==
    [][ ValidatorCalled(lastCall, lastCall') =>
            Contents(fsDirs', logDir', Get(lastCall').args.dirPath)
              = Contents(fsDirs, logDir, Get(lastCall').args.dirPath) ]_vars

\* C17: the validator changes no directory it is asked about, whatever the
\* path and the outcome; the only file that changes during a call is the
\* session log file in .logs of the working directory, by the logger's
\* appends, so the contents of the target directory are unchanged whenever
\* the target does not hold that .logs directory.
C17_OnlySessionLogChanges ==
    [][ ValidatorCalled(lastCall, lastCall') =>
            /\ fsDirs' = fsDirs
            /\ IF IsSome(currentLogFile)
               THEN OtherFiles(logDir', Get(currentLogFile))
                      = OtherFiles(logDir, Get(currentLogFile))
               ELSE logDir' = logDir
            /\ Get(lastCall').args.dirPath # Cwd =>
                 Contents(fsDirs', logDir', Get(lastCall').args.dirPath)
                   = Contents(fsDirs, logDir, Get(lastCall').args.dirPath) ]_vars

\* The validator has found a directory without components invalid while
\* the logger was writing to the session file.
C17_Witness ==
    /\ IsSome(lastCall)
    /\ Get(lastCall).op = "validateSubThemeDirectory"
    /\ Get(lastCall).args.dirPath = <<"d1">>
    /\ fsDirs[<<"d1">>] = NoComponentsDir
    /\ Len(Get(lastCall).args.calls) = 3
    /\ IsSome(currentLogFile)
    /\ \E i \in DOMAIN FileLines(logDir, Get(currentLogFile)) :
           FileLines(logDir, Get(currentLogFile))[i].message = <<"Validation failed">>

RequestsFor(l, file) == {j \in DOMAIN l.requests : l.requests[j] = file}

\* C20: every call of analyze makes exactly one request; when the request
\* succeeds it returns the text of the first content block; when the
\* request fails it throws an error whose message is 'API Error: '
\* followed by the message of the failure, without a second request.
C20_OneRequestPerCall ==
    \A i \in DOMAIN schemaRun.returned :
        LET r == schemaRun.returned[i]
        IN /\ Cardinality(RequestsFor(schemaRun, r.file)) = 1
           /\ ~r.reply.error /\ r.reply.content # <<>> =>
                /\ ~r.threw
                /\ r.text = Head(r.reply.content)
           /\ r.reply.error =>
                /\ r.threw
                /\ r.message = <<"API Error:">> \o r.reply.message

\* One call has returned the first of two content blocks and another has
\* thrown the wrapped error of a failed request.
C20_Witness ==
    /\ \E i \in DOMAIN schemaRun.returned :
           /\ Len(schemaRun.returned[i].reply.content) = 2
           /\ schemaRun.returned[i].text = ProseText
    /\ \E i \in DOMAIN schemaRun.returned :
           /\ schemaRun.returned[i].threw
           /\ schemaRun.returned[i].message = <<"API Error:", "overloaded_error">>
    /\ Len(schemaRun.requests) = 2

\* C21: every invocation of runUpdate starts at step 1 with no step started
\* and every step pending, whatever the earlier invocation came to; a run
\* is completed only when all N steps were started in order and succeeded
\* within that invocation.
C21_AlwaysFromStepOne ==
    [][ /\ (run.pc # "steps" /\ run'.pc = "steps") =>
             /\ run'.step = 1
             /\ run'.started = <<>>
             /\ \A i \in StepNumbers : run'.status[i] = "Pending"
        /\ (run'.started # <<>> /\ run.started = <<>>) => run'.started = <<1>>
        /\ run'.pc = "completed" =>
             /\ run'.started = [i \in StepNumbers |-> i]
             /\ \A i \in StepNumbers : run'.status[i] = "Succeeded" ]_vars

\* A second invocation is at its step 1 although steps 1 and 2 of an
\* earlier invocation, which failed later, left their effects.
C21_Witness ==
    /\ run.pc = "steps"
    /\ run.started = <<1>>
    /\ {1, 2} \subseteq effects
    /\ actions = 2

\* C22: process() skips every component whose output file exists when it
\* comes to it: no call of analyze is made for it and nothing is written to
\* its output file; a run over a directory whose components all have their
\* output makes no call and writes no file.
C22_SkipsProcessed ==
    /\ \A f \in schemaRun.existing :
         /\ f \notin Range(schemaRun.submitted)
         /\ f \notin Range(schemaRun.requests)
         /\ \A i \in DOMAIN schemaRun.written : schemaRun.written[i].file # f
    /\ Range(TwigFiles) \subseteq schemaRun.existing =>
         /\ schemaRun.requests = <<>>
         /\ schemaRun.written = <<>>

\* A second run has ended: it found the output of some components and made
\* one request for each of the others.
C22_Witness ==
    /\ actions = 1
    /\ schemaRun.pc = "done"
    /\ schemaRun.existing # {}
    /\ Len(schemaRun.requests) = Cardinality(Range(TwigFiles) \ schemaRun.existing)
    /\ Len(schemaRun.requests) > 0

\* The names runUpdate sets for its steps, with the field of the loaded
\* configuration each one gets.
StepEnvNames ==
    [SUBTHEME_DIRECTORY    |-> "subthemeDirectory",
     ANTHROPIC_API_KEY     |-> "anthropicApiKey",
     ANTHROPIC_MODEL       |-> "anthropicModel",
     CIVICTHEME_UIKIT_PATH |-> "subthemeDirectory"]

\* C23: every step process is started with the environment of the CLI
\* process overridden by the values of the configuration loaded for the
\* run: SUBTHEME_DIRECTORY, ANTHROPIC_API_KEY and ANTHROPIC_MODEL are the
\* loaded values, also where the process environment holds another value
\* for the name, and every other name has its inherited value.
C23_StepEnvOverridesInherited ==
    [][ Len(run'.children) > Len(run.children) =>
            LET child  == run'.children[Len(run'.children)]
                config == Get(run'.config)
            IN /\ DOMAIN child.env = ProcessKeys
               /\ \A k \in DOMAIN StepEnvNames : child.env[k] = Some(config[StepEnvNames[k]])
               /\ \A k \in ProcessKeys \ DOMAIN StepEnvNames : child.env[k] = processEnv[k] ]_vars

\* A step was started with the default model although the environment of
\* the CLI process holds an empty ANTHROPIC_MODEL, and with the directory
\* and the key the process inherited.
C23_Witness ==
    /\ run.children # <<>>
    /\ run.children[1].env["ANTHROPIC_MODEL"] = Some(DEFAULT_MODEL)
    /\ processEnv["ANTHROPIC_MODEL"] = Some(<<>>)
    /\ run.children[1].env["ANTHROPIC_API_KEY"] = Some(<<"k0">>)

(***************************************************************************)
(* Properties of update-build-and-storybook.sh.                            *)
(***************************************************************************)
\* A file the sub-theme is to keep: its info.yml or a file of components/.
Essential(p) == p = <<"subtheme.info.yml">> \/ (Len(p) > 1 /\ p[1] = "components")

BuildExited == script.name = BuildScript /\ script.pc = "exited"

Preserved(before, after) ==
    \A p \in DOMAIN before : Essential(p) => (p \in DOMAIN after /\ after[p] = before[p])

\* C24 as stated: after the script the listed old files are gone from the
\* sub-theme, the six starter-kit files are there, and the info.yml and
\* the files of components/ are as they were.
C24_RemovesAddsPreserves ==
    BuildExited =>
        /\ \A p \in DOMAIN script.tree : p[1] \in OldFiles => script.tree[p] = "kit"
        /\ \A n \in NewFiles : \E p \in DOMAIN script.tree :
               p[1] = n /\ script.tree[p] = "kit"
        /\ Preserved(script.env.tree, script.tree)

\* C24: when SUBTHEME_DIRECTORY names the sub-theme, outside
\* ./monorepo-drupal, and the clone succeeds, the script exits 0, every
\* listed old file rm can remove is gone, every file the starter kit has
\* under the six names is copied in, and the info.yml and the files of
\* components/ are as they were; when SUBTHEME_DIRECTORY is empty or no
\* directory, or the clone fails, it exits 1 and has removed and added
\* nothing; a sub-theme inside ./monorepo-drupal is deleted with it.
C24_RemovesAddsPreservesWhenCloned ==
    BuildExited =>
        LET w == script.env
            named == w.subthemeDirectory = w.location
            inside == w.location[1] = "monorepo-drupal"
        IN  /\ (named /\ ~inside /\ w.cloneOk) =>
                /\ script.exit = 0
                /\ \A p \in DOMAIN script.tree :
                       p[1] \in OldFiles \ w.rmFails =>
                           (p \in DOMAIN w.kit /\ script.tree[p] = "kit")
                /\ \A p \in DOMAIN w.kit :
                       p[1] \in NewFiles => (p \in DOMAIN script.tree /\ script.tree[p] = "kit")
                /\ Preserved(w.tree, script.tree)
            /\ (~named \/ (~inside /\ ~w.cloneOk)) =>
                /\ script.exit = 1
                /\ script.tree = w.tree
            /\ (named /\ inside) => script.tree = NoTree

C24_Witness ==
    /\ BuildExited
    /\ script.exit = 0
    /\ script.env.location = ThemePath
    /\ <<"webpack", "webpack.dev.js">> \in DOMAIN script.env.tree
    /\ script.env.rmFails = {}
    /\ <<"webpack", "webpack.dev.js">> \notin DOMAIN script.tree
    /\ <<"build.js">> \in DOMAIN script.tree
    /\ script.tree[<<"package.json">>] = "kit"
    /\ script.tree[<<"components", "button", "button.twig">>] = "theme"

(***************************************************************************)
(* Properties of runScript.                                                *)
(***************************************************************************)
ScriptCalled == script.name = "runScript" /\ script.pc # "called"

\* C25: of a path that exists, one ending in .mjs is run with node and one
\* ending in .sh with bash, each with the path as the only argument, and
\* one with any other ending fails with 'Unsupported script type'; a path
\* that does not exist fails with 'Script not found'; in both failures no
\* child process is started.
C25_InvocationFromPath ==
    ScriptCalled =>
        LET s == script.script
        IN  /\ (script.exists /\ s.ext = ".mjs") =>
                /\ Len(script.children) = 1
                /\ script.children[1].command = "node"
                /\ script.children[1].args = <<s.path>>
            /\ (script.exists /\ s.ext = ".sh") =>
                /\ Len(script.children) = 1
                /\ script.children[1].command = "bash"
                /\ script.children[1].args = <<s.path>>
            /\ (script.exists /\ s.ext \notin {".mjs", ".sh"}) =>
                /\ script.pc = "thrown"
                /\ script.error = <<"Unsupported script type:", s.path>>
                /\ script.children = <<>>
            /\ ~script.exists =>
                /\ script.pc = "thrown"
                /\ script.error = <<"Script not found:", s.path>>
                /\ script.children = <<>>

C25_Witness ==
    /\ ScriptCalled
    /\ script.exists
    /\ script.script.ext = ".js"
    /\ script.pc = "thrown"
    /\ script.error = <<"Unsupported script type:", "./scripts/tool.js">>
    /\ console # <<>>

(***************************************************************************)
(* Properties of step2-update-twig.mjs.                                    *)
(***************************************************************************)
\* Step 2 runs to its end over files an earlier run has rewritten.
TwigRerun(s, t) ==
    /\ s.name = TwigScript
    /\ s.runs >= 1
    /\ s.exit = 0
    /\ t.runs = s.runs + 1
    /\ t.exit = 0

\* C26: a run of step 2 over Twig files that an earlier run of step 2 has
\* rewritten leaves the content of every Twig file as it was.
C26_RewritingIdempotent ==
    [][ TwigRerun(script, script') => script'.twig = script.twig ]_vars

(***************************************************************************)
(* Properties of a session in which the configuration is entered again.    *)
(***************************************************************************)
\* runUpdate starts the child process of a step.
ChildStarted(r, t) == Len(t.children) > Len(r.children)

\* C27: once the wizard has saved a directory, a key and a model in a
\* session that had loaded a configuration before, every step started
\* from then on gets the saved values as SUBTHEME_DIRECTORY,
\* ANTHROPIC_API_KEY and ANTHROPIC_MODEL, and the run is made with them.
C27_ReconfigurationTakesEffect ==
    [][ (IsSome(lastSaved) /\ CleanConfig(Get(lastSaved)) /\ ChildStarted(run, run')) =>
            LET child == run'.children[Len(run'.children)]
                saved == Get(lastSaved)
            IN  /\ child.env.SUBTHEME_DIRECTORY = Some(saved.subthemeDirectory)
                /\ child.env.ANTHROPIC_API_KEY = Some(saved.anthropicApiKey)
                /\ child.env.ANTHROPIC_MODEL = Some(saved.anthropicModel)
                /\ Get(run'.config).subthemeDirectory = saved.subthemeDirectory ]_vars

(***************************************************************************)
(* Properties of main() of the schema generation script.                   *)
(***************************************************************************)
\* C28: whenever report() has printed its summary, process() has finished
\* and the successful and failed counts printed add up to the number of
\* files process() did not skip.
C28_ReportCountsEveryFile ==
    IsSome(schemaRun.report) =>
        /\ schemaRun.pc = "done"
        /\ Get(schemaRun.report).successful + Get(schemaRun.report).failed
               = Len(schemaRun.submitted)

(***************************************************************************)
(* Properties of the Storybook v8 CLI.                                     *)
(***************************************************************************)
\* C29: when a pass of the menu that chose one of the two updates has gone
\* through configureApplication (a valid directory and a key entered and
\* written to .env), its recheck has succeeded and it has started the
\* update that was chosen.
C29_RecheckSucceeds ==
    (/\ script.name = V8Cli
     /\ script.last.choice \in {"update_build_system", "update_stories"}
     /\ script.last.configured
     /\ script.last.saved) =>
        /\ script.last.recheck
        /\ script.last.started = script.last.choice

(***************************************************************************)
(* Properties of the story conversion.                                     *)
(***************************************************************************)
StoriesRun == script.name = StoriesScript

ReturnedFor(s, f) == {i \in DOMAIN s.returned : s.returned[i].file = f}

RequestedFor(s, f) == {i \in DOMAIN s.requests : s.requests[i].file = f}

\* C30: a story file whose content has changed holds the text of the first
\* content block of the valid response to its request; a file whose
\* response was invalid or whose request threw is as it was; no file is
\* requested twice, the files are requested in the order found, and when
\* the conversion is over every file was requested exactly once.
C30_OverwrittenOnlyWithValidText ==
    StoriesRun =>
        /\ \A f \in DOMAIN script.files :
              /\ script.files[f] # script.original[f] =>
                    \E i \in ReturnedFor(script, f) :
                        /\ ValidResponse(script.returned[i].reply)
                        /\ script.files[f] = script.returned[i].reply.content[1]
              /\ (\E i \in ReturnedFor(script, f) : ~ValidResponse(script.returned[i].reply))
                    => script.files[f] = script.original[f]
              /\ Cardinality(RequestedFor(script, f)) <= 1
              /\ script.pc = "done" => Cardinality(RequestedFor(script, f)) = 1
        /\ \A i \in DOMAIN script.requests :
              /\ script.requests[i].file = i
              /\ script.requests[i].content = script.original[i]

C30_Witness ==
    /\ StoriesRun
    /\ script.pc = "done"
    /\ Len(script.requests) = 3
    /\ script.returned[1].reply = Failure(<<"fetch failed">>)
    /\ script.returned[2].reply = Reply(<<>>)
    /\ ValidResponse(script.returned[3].reply)
    /\ script.files[1] = StoryV6(1)
    /\ script.files[2] = StoryV6(2)
    /\ script.files[3] = StoryV8

====
